---- MODULE Spec2Model ----
(***************************************************************************)
(* SLAPS task orchestrator (tools/tasks).                                  *)
(*                                                                         *)
(* Several state machines share this module:                               *)
(*   - the filesystem queue of taskwatch/domain.py (Worker.run_once and    *)
(*     the Watcher handlers), specification SpecFS, and its worker pool    *)
(*     alone, specification SpecWorkers;                                   *)
(*   - the polling loop of watch_tasks.py (Worker.run, Watcher.run),       *)
(*     specification SpecLoop;                                             *)
(*   - the GitHub-fields backend of taskwatch/domain_gh.py driven by       *)
(*     watch_tasks_gh.py, specification SpecGH, and several such watcher   *)
(*     processes electing a leader, specification SpecLeaders;             *)
(*   - Worker.run_once of taskwatch/domain.py on directories given by      *)
(*     file name, specification SpecRun;                                   *)
(*   - the Watcher of taskwatch/domain.py stopped between the marker and   *)
(*     the unlock of a closed task, specification SpecCrash;               *)
(*   - coordinate_waves.main, specification SpecCoord;                     *)
(*   - Worker._ensure_estimate_for, specification SpecEstimate;            *)
(*   - watch_tasks.py receiving SIGINT or SIGTERM, specification           *)
(*     SpecSignal;                                                         *)
(*   - the filesystem store with its directories on several devices,       *)
(*     specification SpecDevices;                                          *)
(*   - Watcher.handle_failed with the outcomes of its file and LLM calls,  *)
(*     specification SpecFailed;                                           *)
(*   - WavesCache of taskwatch/waves_cache.py, specification SpecWaves.    *)
(* A directory is the set of issue numbers whose prompt file "<n>.txt" it  *)
(* holds; file names are sequences of character codes, so that listing     *)
(* order and prefix tests are computed on the names as the code does.      *)
(***************************************************************************)
EXTENDS Integers, Sequences, FiniteSets, TLC

VARIABLES
    open, blocked, claimed, closed, failed, dead,   \* queue directories
    admin_closed,        \* admin/closed: issues that have "<n>.closed"
    attempts,            \* admin/attempts/<n>.count
    sent,                \* remediation prompts sent to the LLM, per issue
    footer,              \* issues whose dead file carries "## DEAD LETTER:"
    w_pc, w_cur, w_scan, \* per worker: position, task in hand, open listing
    execs, fails,        \* per issue: task LLM runs, routings to failed
    closed_seen, failed_seen, l_pc, l_todo,  \* Watcher.run of watch_tasks.py
    gh_state, gh_worker, gh_attempt,  \* project fields slaps-state/-worker/-attempt-count
    cache,               \* .slaps/cache/project_items.json, per issue
    locks, stale,        \* lock/<n>.lock.txt: worker id; locks older than lock_ttl_sec
    hb_fresh,            \* gh_watcher_leader.json has a ts younger than leader_ttl_sec
    g_pc,                \* position of the watch_tasks_gh.py process
    gw_pc, gw_cur, gw_cands, gw_remote, gw_att,  \* per GH worker thread
    restarts,            \* times the process was started again
    issue_closed,        \* issues that are closed on GitHub
    hb_owner,            \* process whose pid gh_watcher_leader.json holds
    lock_int,            \* locks whose file holds a bare worker id
    ld_pc,               \* per watcher process: position in its pass
    ld_actor, ld_last,   \* the process that took the last step, and the step
    led,                 \* processes that led since the heartbeat last expired
    r_open, r_slot, r_closed, r_failed,  \* directories as sets of file names
    r_filter, r_allowed, \* Worker.allowed_issues: is it set, and its value
    r_pc, r_cur,         \* run_once: position, file being processed
    r_ret,               \* what the last run_once returned
    r_order,             \* names claimed from open/, in order
    r_footer,            \* files that carry a "## FAILURE:" footer
    r_in,                \* exit code and I/O outcomes of the last routing
    c_pc, c_cur,         \* crashing watcher: position, closed issue in hand
    c_swept,             \* dependents the last startup_sweep reported as moved
    lbl_earlier,         \* outside blockers labelled with a wave before this one
    bl_lost,             \* issues whose blockers-cache entry holds [] after a failed lookup
    raw_missing,         \* issues whose raw record has no blockedBy list
    co_pc, co_wave,      \* coordinate_waves.main: position, wave of the loop
    co_exit,             \* its exit code, -1 while it runs
    co_start, co_max,    \* wave_start and parse_max_wave(roadmap)
    co_pre,              \* preflight: not run, passed or failed
    co_wdead,            \* per wave: files in .slaps/tasks/<wave>/dead
    co_hist,             \* per wave: what happened in its iteration
    es_pc,               \* a worker and one task: position
    es_fail,             \* admin/attempts/<n>.count: failures recorded
    es_cache,            \* admin/estimates/<n>.json, NoEstimate when absent
    es_sec, es_timeout,  \* Worker.estimate_sec and timeout_sec, 0 for None
    es_llm,              \* timeout the task LLM was last run with, 0 for None
    es_in,               \* exit code and output of the last estimator run
    sg_pc,               \* watch_tasks.main: position of the main thread
    sg_exit,             \* exit status of the process once sg_pc = "exited"
    sg_sig,              \* the signal delivered, "none" before
    sg_stop,             \* Watcher.stop_event
    sg_report,           \* "All work complete. Final report:" was printed
    sg_wpc, sg_cur,      \* per worker thread: position, current_issue (0: None)
    sg_loc,              \* per task file: the directory that holds it
    sg_late,             \* a file was claimed after stop_event was set
    dv_dev,              \* per state directory: the device it is on
    dv_pc,               \* the store: "new" before Watcher.__init__, then "ready"
    dv_made,             \* state directories ensure_dirs has prepared
    dv_loc,              \* the directory that holds the task file
    dv_marker,           \* the task has its file in admin/closed
    dv_llm,              \* the task LLM was run
    hf_pc,               \* the watcher's caller: "watching", or "raised" once
                         \* an exception left handle_failed
    hf_att,              \* admin/attempts/<n>.count of the task
    hf_loc,              \* the directory that holds the task file
    hf_new,              \* the file in failed/ has not been handled yet
    hf_footer,           \* the file carries the DEAD LETTER footer
    hf_reasons,          \* paragraphs the watcher appended to reasons/<n>.txt
    hf_in,               \* outcomes of the I/O of the last handle_failed
    wc_file,             \* .slaps/cache/waves.json: exists, within the TTL, "waves"
    wc_last              \* the last WavesCache call, its arguments or its result

fsVars == <<open, blocked, claimed, closed, failed, dead, admin_closed,
            attempts, sent, footer, w_pc, w_cur, w_scan, execs, fails>>
loopVars == <<closed_seen, failed_seen, l_pc, l_todo>>
ghVars == <<gh_state, gh_worker, gh_attempt, cache, locks, stale, hb_fresh,
            g_pc, gw_pc, gw_cur, gw_cands, gw_remote, gw_att,
            restarts, issue_closed>>
ldVars == <<hb_owner, lock_int, ld_pc, ld_last, ld_actor, led>>
runVars == <<r_open, r_slot, r_closed, r_failed, r_filter, r_allowed, r_pc,
             r_cur, r_ret, r_order, r_footer, r_in>>
crVars == <<c_pc, c_cur, c_swept>>
wgVars == <<lbl_earlier, bl_lost>>
rmVars == <<raw_missing>>
esVars == <<es_pc, es_fail, es_cache, es_sec, es_timeout, es_llm, es_in>>
sgVars == <<sg_pc, sg_exit, sg_sig, sg_stop, sg_report, sg_wpc, sg_cur, sg_loc,
            sg_late>>
dvVars == <<dv_dev, dv_pc, dv_made, dv_loc, dv_marker, dv_llm>>
hfVars == <<hf_pc, hf_att, hf_loc, hf_new, hf_footer, hf_reasons, hf_in>>
wcVars == <<wc_file, wc_last>>
coVars == <<co_pc, co_wave, co_exit, co_start, co_max, co_pre, co_wdead, co_hist>>
moreVars == <<crVars, wgVars, rmVars, coVars, esVars, sgVars, dvVars, hfVars,
             wcVars>>
extVars == <<ldVars, runVars, moreVars>>
\* Everything a step of the crashing watcher leaves alone by construction.
notCr == <<loopVars, ghVars, ldVars, runVars, wgVars, rmVars, coVars, esVars, sgVars,
          dvVars, hfVars,
          wcVars>>
\* Everything a step of the wave coordinator leaves alone by construction.
notCo == <<fsVars, loopVars, ghVars, ldVars, runVars, crVars, wgVars, rmVars, esVars, sgVars,
          dvVars, hfVars,
          wcVars>>
\* Everything a step of the estimating worker leaves alone by construction.
notEs == <<fsVars, loopVars, ghVars, ldVars, runVars, crVars, wgVars, rmVars, coVars,
          sgVars, dvVars, hfVars,
          wcVars>>
\* Everything a step of the signalled watcher leaves alone by construction.
notSg == <<fsVars, loopVars, ghVars, ldVars, runVars, crVars, wgVars, rmVars, coVars,
          esVars, dvVars, hfVars,
          wcVars>>
\* Everything a step of the store on several devices leaves alone by
\* construction.
notDv == <<fsVars, loopVars, ghVars, ldVars, runVars, crVars, wgVars, rmVars, coVars,
          esVars, sgVars, hfVars,
          wcVars>>
\* Everything a step of the failure handler leaves alone by construction.
notHf == <<fsVars, loopVars, ghVars, ldVars, runVars, crVars, wgVars, rmVars, coVars,
          esVars, sgVars, dvVars,
          wcVars>>
\* Everything a step of the waves cache leaves alone by construction.
notWc == <<fsVars, loopVars, ghVars, ldVars, runVars, crVars, wgVars, rmVars, coVars,
          esVars, sgVars, dvVars, hfVars>>
vars == <<fsVars, loopVars, ghVars, extVars>>

----------------------------------------------------------------------------
(* Bounds and program constants *)

\* Worker ids (watch_tasks.py starts one per CPU; two are modelled).
NWorkers == 2
Workers == 1..NWorkers

\* handle_failed runs at most this many times in all.
MaxAttempts == 3

\* The task LLM exits non-zero at most this many times in all.
MaxFails == 3

\* Issue numbers of the modelled wave; 10 is there because "10" starts with "1".
Issues == {1, 3, 10}

\* attempts >= 3 dead-letters the task (domain.py:493).
DeadAfter == 3

\* admin/edges.csv: blocker -> dependents, as load_edges_map returns it.
edges == [b \in Issues |-> IF b \in {1, 10} THEN {3} ELSE {}]

\* raw/issue-<n>.json relationships.blockedBy
raw_blockedBy == [d \in Issues |-> IF d = 3 THEN {1, 10} ELSE {}]

----------------------------------------------------------------------------
(* File names *)

IsDigit(c) == c \in 48..57
TxtSuffix == <<46, 116, 120, 116>>                       \* ".txt"
ClosedSuffix == <<46, 99, 108, 111, 115, 101, 100>>      \* ".closed"

RECURSIVE Str(_)
\* Python's str(n) / f"{n}" for n >= 0, as character codes.
Str(n) == IF n < 10 THEN <<48 + n>> ELSE Str(n \div 10) \o <<48 + (n % 10)>>

\* "<n>.txt", the prompt file of issue n.
TaskName(n) == Str(n) \o TxtSuffix

\* "<n>.closed", the marker _write_closed_marker writes.
MarkerName(n) == Str(n) \o ClosedSuffix

\* str.startswith
startswith(name, prefix) ==
    /\ Len(prefix) <= Len(name)
    /\ SubSeq(name, 1, Len(prefix)) = prefix

RECURSIVE ParseDigits(_, _, _)
ParseDigits(s, k, acc) ==
    IF k > Len(s) \/ ~IsDigit(s[k]) THEN acc
    ELSE ParseDigits(s, k + 1, acc * 10 + (s[k] - 48))

\* ISSUE_NUM_RE.search(path.name): the first run of digits, or None (0 here:
\* no issue has number 0).
extract_issue_number(name) ==
    LET pos == {k \in 1..Len(name) : IsDigit(name[k])}
    IN IF pos = {} THEN 0
       ELSE LET first == CHOOSE k \in pos : \A j \in pos : k <= j
            IN ParseDigits(name, first, 0)

\* a < b for Python strings (code point order).
LexLess(a, b) ==
    \E k \in 1..(Len(a) + 1) :
        /\ k <= Len(b)
        /\ \A j \in 1..(k - 1) : a[j] = b[j]
        /\ (k = Len(a) + 1 \/ a[k] < b[k])

RECURSIVE SortNames(_)
\* sorted(...) of a set of names.
SortNames(S) ==
    IF S = {} THEN <<>>
    ELSE LET m == CHOOSE x \in S : \A y \in S \ {x} : LexLess(x, y)
         IN <<m>> \o SortNames(S \ {m})

\* LocalFS.list_files followed by the ".txt" filter of list_sorted_txt,
\* for a directory holding the prompt files of the issues in dir.
list_sorted_txt(dir) == SortNames({TaskName(n) : n \in dir})

----------------------------------------------------------------------------
(* Dependency helpers of taskwatch/domain.py *)

\* get_blockers_from_raw: the blockedBy list of raw/issue-<dep>.json, and
\* the empty set when the record has none.
get_blockers_from_raw(dep) ==
    IF dep \in raw_missing THEN {} ELSE raw_blockedBy[dep]

\* Every blocker has some file in admin/closed whose name starts with its number.
blockers_all_closed(markers, blockers) ==
    \A b \in blockers :
        \E m \in markers : startswith(MarkerName(m), Str(b))

\* Watcher.allowed_issues / Worker.allowed_issues: the wave's issues.
allowed_issues == Issues

\* Issues without blockers: the ones that can have been closed before the
\* watcher process at hand was started.
Earlier == {i \in Issues : raw_blockedBy[i] = {}}

RECURSIVE Sum(_, _)
\* Total of a per-issue counter over the issues in S.
Sum(f, S) ==
    IF S = {} THEN 0
    ELSE LET x == CHOOSE y \in S : TRUE IN f[x] + Sum(f, S \ {x})

RECURSIVE SortInts(_)
\* sorted(...) of a set of issue numbers.
SortInts(S) ==
    IF S = {} THEN <<>>
    ELSE LET m == CHOOSE x \in S : \A y \in S : x <= y
         IN <<m>> \o SortInts(S \ {m})

----------------------------------------------------------------------------
(* taskwatch/domain.py: Worker.run_once, one worker per claimed/<w> *)

\* A move that reports success whether or not the source file still exists.
move_not_atomic(dir, i) == TRUE

\* fs.move_atomic(src, dst) is os.replace: it succeeds iff src exists and
\* replaces whatever dst held.
move_ok(dir, i) == i \in dir

\* Entry of run_once: claim-corruption repair, then either resume the claimed
\* file or list open/.
RunOnceBegin(w) ==
    /\ w_pc[w] = "idle"
    /\ LET claimed_files == list_sorted_txt(claimed[w])
           keep == IF claimed_files = <<>> THEN {}
                   ELSE {extract_issue_number(Head(claimed_files))}
           extras == claimed[w] \ keep
       IN /\ claimed' = [claimed EXCEPT ![w] = keep]
          /\ failed' = failed \cup extras
          /\ IF keep # {}
             THEN /\ w_pc' = [w_pc EXCEPT ![w] = "exec"]
                  /\ w_cur' = [w_cur EXCEPT ![w] = CHOOSE i \in keep : TRUE]
                  /\ w_scan' = w_scan
             ELSE /\ w_pc' = [w_pc EXCEPT ![w] = "scan"]
                  /\ w_scan' = [w_scan EXCEPT ![w] = list_sorted_txt(open)]
                  /\ w_cur' = w_cur
    /\ UNCHANGED <<open, blocked, closed, dead, admin_closed, attempts, sent,
                   footer, execs, fails, loopVars, ghVars, extVars>>

\* One iteration of "for f in list_sorted_txt(open)": filter, then try the
\* atomic move into claimed/<w>; the loop running out returns False.
TryClaim(w) ==
    /\ w_pc[w] = "scan"
    /\ IF w_scan[w] = <<>>
       THEN /\ w_pc' = [w_pc EXCEPT ![w] = "idle"]
            /\ UNCHANGED <<open, claimed, w_cur, w_scan>>
       ELSE LET f == Head(w_scan[w])
                f_issue == extract_issue_number(f)
            IN IF f_issue = 0 \/ f_issue \notin allowed_issues
                  \/ ~move_ok(open, f_issue)
               THEN /\ w_scan' = [w_scan EXCEPT ![w] = Tail(w_scan[w])]
                    /\ UNCHANGED <<open, claimed, w_cur, w_pc>>
               ELSE /\ open' = open \ {f_issue}
                    /\ claimed' = [claimed EXCEPT ![w] = claimed[w] \cup {f_issue}]
                    /\ w_cur' = [w_cur EXCEPT ![w] = f_issue]
                    /\ w_pc' = [w_pc EXCEPT ![w] = "exec"]
                    /\ w_scan' = [w_scan EXCEPT ![w] = <<>>]
    /\ UNCHANGED <<blocked, closed, failed, dead, admin_closed, attempts, sent,
                   footer, execs, fails, loopVars, ghVars, extVars>>

\* llm.exec returned rc: route the claimed file to closed/ (rc = 0) or to
\* failed/ (rc # 0), and return True.
Route(w, rc) ==
    /\ w_pc[w] = "exec"
    /\ rc # 0 => Sum(fails, Issues) < MaxFails
    /\ LET i == w_cur[w]
       IN /\ execs' = [execs EXCEPT ![i] = @ + 1]
          /\ claimed' = [claimed EXCEPT ![w] = claimed[w] \ {i}]
          /\ IF rc # 0
             THEN /\ failed' = failed \cup {i}
                  /\ fails' = [fails EXCEPT ![i] = @ + 1]
                  /\ closed' = closed
             ELSE /\ closed' = closed \cup {i}
                  /\ UNCHANGED <<failed, fails>>
    /\ w_pc' = [w_pc EXCEPT ![w] = "idle"]
    /\ w_cur' = [w_cur EXCEPT ![w] = 0]
    /\ UNCHANGED <<open, blocked, dead, admin_closed, attempts, sent, footer,
                   w_scan, loopVars, ghVars, extVars>>

----------------------------------------------------------------------------
(* taskwatch/domain.py: Watcher *)

\* A marker writer that empties admin/closed before it writes.
write_marker_replacing(markers, issue) == {issue}

\* _write_closed_marker: admin/closed/<issue>.closed, written if absent.
write_closed_marker(markers, issue) == markers \cup {issue}

\* The dependents _unlock_downstream(issue) moves from blocked/ to open/,
\* given the markers and directories it reads.
unlock_downstream(markers, blk, opn, issue) ==
    {dep \in edges[issue] :
        /\ get_blockers_from_raw(dep) # {}
        /\ blockers_all_closed(markers, get_blockers_from_raw(dep))
        /\ dep \in blk
        /\ dep \notin opn
        /\ dep \in allowed_issues}

\* A handle_closed that unlocks on the markers it found and writes its own
\* marker afterwards.
handle_closed_unlock_first(st, issue) ==
    LET moved == unlock_downstream(st.markers, st.blocked, st.open, issue)
    IN [markers |-> write_closed_marker(st.markers, issue),
        blocked |-> st.blocked \ moved,
        open |-> st.open \cup moved]

\* handle_closed as a function of the markers and directories it reads:
\* _write_closed_marker, then _unlock_downstream.
handle_closed(st, issue) ==
    LET markers == write_closed_marker(st.markers, issue)
        moved == unlock_downstream(markers, st.blocked, st.open, issue)
    IN [markers |-> markers,
        blocked |-> st.blocked \ moved,
        open |-> st.open \cup moved]

\* handle_closed(closed/<i>.txt): marker first, then unlock.
HandleClosed(i) ==
    /\ i \in closed
    /\ LET issue == extract_issue_number(TaskName(i))
           markers == write_closed_marker(admin_closed, issue)
           moved == unlock_downstream(markers, blocked, open, issue)
       IN /\ admin_closed' = markers
          /\ blocked' = blocked \ moved
          /\ open' = open \cup moved
    /\ UNCHANGED <<claimed, closed, failed, dead, attempts, sent, footer,
                   w_pc, w_cur, w_scan, execs, fails, loopVars, ghVars, extVars>>

RECURSIVE sweep(_, _)
\* The loop of startup_sweep over sorted(issues): st carries the markers and
\* the blocked/ and open/ directories through the iterations.
sweep(todo, st) ==
    IF todo = <<>> THEN st
    ELSE LET issue == Head(todo)
             markers == write_closed_marker(st.markers, issue)
             moved == unlock_downstream(markers, st.blocked, st.open, issue)
         IN sweep(Tail(todo), [markers |-> markers,
                               blocked |-> st.blocked \ moved,
                               open |-> st.open \cup moved])

\* A sweep that collects its issues from the markers alone.
issues_from_markers(cl, markers) ==
    {extract_issue_number(MarkerName(m)) : m \in markers} \ {0}

\* The issues startup_sweep collects: those named by closed/ files and by
\* existing markers.
startup_issues(cl, markers) ==
    ({extract_issue_number(TaskName(i)) : i \in cl}
     \cup {extract_issue_number(MarkerName(m)) : m \in markers}) \ {0}

\* startup_sweep: issues named by closed/ files and by existing markers.
StartupSweep ==
    /\ LET issues == startup_issues(closed, admin_closed)
           st == sweep(SortInts(issues),
                       [markers |-> admin_closed, blocked |-> blocked, open |-> open])
       IN /\ admin_closed' = st.markers
          /\ blocked' = st.blocked
          /\ open' = st.open
    /\ UNCHANGED <<claimed, closed, failed, dead, attempts, sent, footer,
                   w_pc, w_cur, w_scan, execs, fails, loopVars, ghVars, extVars>>

\* _inc_attempt: read the counter, add one, write it back.
inc_attempt(n) == n + 1

\* A handle_failed whose move to dead/ sits inside the try block of the append.
dead_move_in_try(append_ok) == append_ok

\* Whether handle_failed moves failed/<i>.txt to dead/ when appending the
\* DEAD LETTER footer succeeded or raised (append_ok).
dead_move(append_ok) == TRUE

\* handle_failed(failed/<i>.txt).  append_ok: whether fs.append_text of the
\* DEAD LETTER footer succeeds; wrote: whether the remediation LLM writes the
\* new prompt to open/<i>.txt as it is asked to.
HandleFailed(i, append_ok, wrote) ==
    /\ i \in failed
    /\ Sum(attempts, Issues) < MaxAttempts
    /\ LET n == inc_attempt(attempts[i])
       IN /\ attempts' = [attempts EXCEPT ![i] = n]
          /\ IF n >= DeadAfter
             THEN /\ footer' = IF append_ok THEN footer \cup {i} ELSE footer \ {i}
                  /\ IF dead_move(append_ok)
                     THEN /\ failed' = failed \ {i}
                          /\ dead' = dead \cup {i}
                     ELSE UNCHANGED <<failed, dead>>
                  /\ UNCHANGED <<sent, open>>
             ELSE /\ sent' = [sent EXCEPT ![i] = @ + 1]
                  /\ open' = IF wrote THEN open \cup {i} ELSE open
                  /\ UNCHANGED <<footer, failed, dead>>
    /\ UNCHANGED <<blocked, claimed, closed, admin_closed,
                   w_pc, w_cur, w_scan, execs, fails, loopVars, ghVars, extVars>>

----------------------------------------------------------------------------
(* Specifications of the filesystem backend *)

\* No second watcher process is modelled outside SpecLeaders.
LdOff ==
    /\ hb_owner = 0
    /\ lock_int = {}
    /\ ld_pc = <<>> /\ ld_last = "env"
    /\ ld_actor = 0
    /\ led = {}

\* No directory is modelled by file name outside SpecRun.
RunOff ==
    /\ r_open = {} /\ r_slot = {} /\ r_closed = {} /\ r_failed = {}
    /\ r_filter = FALSE /\ r_allowed = {}
    /\ r_pc = "off" /\ r_cur = <<>>
    /\ r_ret = "none"
    /\ r_order = <<>>
    /\ r_footer = {}
    /\ r_in = [rc |-> 0, append_ok |-> TRUE, mv_ok |-> TRUE]

\* The watcher of SpecCrash is not running.
CrOff == c_pc = "off" /\ c_cur = 0 /\ c_swept = {}

\* No blocker outside the wave carries the label of an earlier wave.
WgOff == lbl_earlier = {} /\ bl_lost = {}

\* Every raw record carries its blockedBy list.
RmOff == raw_missing = {}

\* admin/estimates/<n>.json does not exist.
NoEstimate == [attempt |-> 0, estimate_sec |-> 0, timeout_sec |-> 0]

\* No estimate is being made.
EsOff ==
    /\ es_pc = "off" /\ es_fail = 0
    /\ es_cache = NoEstimate
    /\ es_sec = 0 /\ es_timeout = 0 /\ es_llm = 0
    /\ es_in = [rc |-> 0, out |-> <<>>, ran |-> FALSE]

\* No watch_tasks.py process is followed through a signal.
SgOff ==
    /\ sg_pc = "off" /\ sg_exit = 0 /\ sg_sig = "none"
    /\ sg_stop = FALSE /\ sg_report = FALSE /\ sg_late = FALSE
    /\ sg_wpc = <<>> /\ sg_cur = <<>> /\ sg_loc = <<>>

\* No store is followed through its start.
DvOff ==
    /\ dv_dev = <<>> /\ dv_pc = "off" /\ dv_made = {}
    /\ dv_loc = "none" /\ dv_marker = FALSE /\ dv_llm = FALSE

\* No failure is being handled.
HfOff ==
    /\ hf_pc = "off" /\ hf_att = 0 /\ hf_loc = "none" /\ hf_new = FALSE
    /\ hf_footer = FALSE /\ hf_reasons = 0
    /\ hf_in = [append_ok |-> TRUE, reasons_ok |-> TRUE, rc |-> 0, wrote |-> FALSE]

\* A JSON object as the set of its <<key, value>> pairs; d.get(k).
has_key(d, k) == \E kv \in d : kv[1] = k
value_of(d, k) == (CHOOSE kv \in d : kv[1] = k)[2]

\* No waves.json has been written.
NoWavesFile == [exists |-> FALSE, fresh |-> FALSE, waves |-> {}]

\* No wave cache is in use.
WcOff ==
    /\ wc_file = NoWavesFile
    /\ wc_last = [op |-> "off", wave |-> 0, issues |-> {}]

\* The wave coordinator is not running.
CoOff ==
    /\ co_pc = "off" /\ co_wave = 0 /\ co_exit = -1
    /\ co_start = 0 /\ co_max = 0
    /\ co_pre = "none"
    /\ co_wdead = <<>> /\ co_hist = <<>>

MoreOff == CrOff /\ WgOff /\ RmOff /\ CoOff /\ EsOff /\ SgOff /\ DvOff /\ HfOff
           /\ WcOff

ExtOff == LdOff /\ RunOff /\ MoreOff

\* The GitHub backend is not in use in SpecFS, SpecWorkers and SpecLoop.
GHOff ==
    /\ gh_state = <<>> /\ gh_worker = <<>> /\ gh_attempt = <<>>
    /\ cache = <<>> /\ locks = <<>> /\ stale = {}
    /\ hb_fresh = FALSE
    /\ g_pc = "off"
    /\ gw_pc = <<>> /\ gw_cur = <<>> /\ gw_cands = <<>> /\ gw_remote = <<>>
    /\ gw_att = <<>>
    /\ restarts = 0
    /\ issue_closed = {}

\* Watcher.run of watch_tasks.py is not running in SpecFS and SpecWorkers.
LoopOff ==
    /\ closed_seen = {}
    /\ failed_seen = {}
    /\ l_pc = "off"
    /\ l_todo = <<>>

WorkersIdle ==
    /\ claimed = [w \in Workers |-> {}]
    /\ w_pc = [w \in Workers |-> "idle"]
    /\ w_cur = [w \in Workers |-> 0]
    /\ w_scan = [w \in Workers |-> <<>>]
    /\ execs = [i \in Issues |-> 0]
    /\ fails = [i \in Issues |-> 0]

\* After prompt generation: a task with blockers starts in blocked/, any
\* other in open/; Watcher.__init__ has created the empty directories.
InitFSDirs ==
    /\ open = {i \in Issues : raw_blockedBy[i] = {}}
    /\ blocked = {i \in Issues : raw_blockedBy[i] # {}}
    /\ closed = {} /\ failed = {} /\ dead = {}
    /\ admin_closed = {}
    /\ attempts = [i \in Issues |-> 0]
    /\ sent = [i \in Issues |-> 0]
    /\ footer = {}
    /\ WorkersIdle
    /\ LoopOff
    /\ GHOff

InitFS == InitFSDirs /\ ExtOff

WorkerStep ==
    \E w \in Workers :
        \/ RunOnceBegin(w)
        \/ TryClaim(w)
        \/ \E rc \in {0, 1} : Route(w, rc)

WatcherStep ==
    \/ \E i \in Issues : HandleClosed(i)
    \/ \E i \in Issues : \E append_ok, wrote \in BOOLEAN :
           HandleFailed(i, append_ok, wrote)
    \/ StartupSweep

\* SpecFS runs the operations one after another: a run_once that has begun
\* finishes before the next operation starts.
NoneRunning(W) == \A w \in W : w_pc[w] = "idle"

NextFS ==
    \/ \E w \in Workers :
          /\ NoneRunning(Workers \ {w})
          /\ \/ RunOnceBegin(w)
             \/ TryClaim(w)
             \/ \E rc \in {0, 1} : Route(w, rc)
    \/ NoneRunning(Workers) /\ WatcherStep

SpecFS == InitFS /\ [][NextFS]_vars

\* The same queue when the raw record of a task in blocked/ may lack its
\* blockedBy list while admin/edges.csv still names the task as a dependent.
InitFSRaw ==
    /\ InitFSDirs
    /\ LdOff /\ RunOff /\ CrOff /\ WgOff /\ CoOff /\ EsOff /\ SgOff /\ DvOff /\ HfOff
    /\ WcOff
    /\ raw_missing \in SUBSET {i \in Issues : raw_blockedBy[i] # {}}

SpecFSRaw == InitFSRaw /\ [][NextFS]_vars

\* The worker pool alone, on any non-empty set of open tasks.
InitWorkers ==
    /\ open \in SUBSET Issues /\ open # {}
    /\ blocked = {} /\ closed = {} /\ failed = {} /\ dead = {}
    /\ admin_closed = {}
    /\ attempts = [i \in Issues |-> 0]
    /\ sent = [i \in Issues |-> 0]
    /\ footer = {}
    /\ WorkersIdle
    /\ LoopOff
    /\ GHOff
    /\ ExtOff

SpecWorkers == InitWorkers /\ [][WorkerStep]_vars

----------------------------------------------------------------------------
(* taskwatch/domain.py: a Watcher whose process can die between any two
   file operations, and is started again with startup_sweep *)

\* The markers and directories the handlers read, as one record.
Dirs == [markers |-> admin_closed, blocked |-> blocked, open |-> open]

RECURSIVE handle_all(_, _)
\* handle_closed for each issue of todo in turn.
handle_all(todo, st) ==
    IF todo = <<>> THEN st
    ELSE handle_all(Tail(todo), handle_closed(st, Head(todo)))

\* What a watcher that is not interrupted makes of the present state: it
\* finishes the handle_closed it is in, and handles every file in closed/.
uninterrupted ==
    LET first == IF c_pc \in {"marked", "died_marked"}
                 THEN handle_closed(Dirs, c_cur) ELSE Dirs
    IN handle_all(SortInts({extract_issue_number(TaskName(i)) : i \in closed}),
                  first)

\* What startup_sweep makes of the present state.
startup_sweep ==
    sweep(SortInts(startup_issues(closed, admin_closed)), Dirs)

\* handle_closed, first half: _write_closed_marker(issue).
CrWriteMarker(i) ==
    /\ c_pc \in {"idle", "swept"}
    /\ i \in closed
    /\ admin_closed' = write_closed_marker(admin_closed,
                                           extract_issue_number(TaskName(i)))
    /\ c_pc' = "marked"
    /\ c_cur' = extract_issue_number(TaskName(i))
    /\ UNCHANGED <<open, blocked, claimed, closed, failed, dead, attempts, sent,
                   footer, w_pc, w_cur, w_scan, execs, fails, c_swept, notCr>>

\* handle_closed, second half: _unlock_downstream(issue).
CrUnlock ==
    /\ c_pc = "marked"
    /\ LET moved == unlock_downstream(admin_closed, blocked, open, c_cur)
       IN /\ blocked' = blocked \ moved
          /\ open' = open \cup moved
    /\ c_pc' = "idle"
    /\ c_cur' = 0
    /\ UNCHANGED <<claimed, closed, failed, dead, admin_closed, attempts, sent,
                   footer, w_pc, w_cur, w_scan, execs, fails, c_swept, notCr>>

\* The process dies: its worker threads die with it, the files stay where
\* they are (a claimed file is resumed by the next run_once).
Crash ==
    /\ c_pc \in {"idle", "swept", "marked"}
    /\ c_pc' = IF c_pc = "marked" THEN "died_marked" ELSE "died"
    /\ w_pc' = [w \in Workers |-> "idle"]
    /\ w_cur' = [w \in Workers |-> 0]
    /\ w_scan' = [w \in Workers |-> <<>>]
    /\ UNCHANGED <<open, blocked, claimed, closed, failed, dead, admin_closed,
                   attempts, sent, footer, execs, fails, c_cur, c_swept, notCr>>

\* The process is started again and runs startup_sweep.
RestartSweep ==
    /\ c_pc \in {"died", "died_marked"}
    /\ admin_closed' = startup_sweep.markers
    /\ blocked' = startup_sweep.blocked
    /\ open' = startup_sweep.open
    /\ c_swept' = blocked \ startup_sweep.blocked
    /\ c_pc' = "swept"
    /\ c_cur' = 0
    /\ UNCHANGED <<claimed, closed, failed, dead, attempts, sent, footer,
                   w_pc, w_cur, w_scan, execs, fails, notCr>>

\* The wave's directories after prompt generation, markers of earlier waves
\* in admin/closed, and the watcher's first startup_sweep done.
InitCrash ==
    /\ RmOff
    /\ \E prior \in SUBSET Earlier :
         LET st == sweep(SortInts(startup_issues({}, prior)),
                         [markers |-> prior,
                          blocked |-> {i \in Issues : raw_blockedBy[i] # {}},
                          open |-> {i \in Issues \ prior : raw_blockedBy[i] = {}}])
         IN /\ admin_closed = st.markers
            /\ blocked = st.blocked
            /\ open = st.open
    /\ closed = {} /\ failed = {} /\ dead = {}
    /\ attempts = [i \in Issues |-> 0]
    /\ sent = [i \in Issues |-> 0]
    /\ footer = {}
    /\ WorkersIdle
    /\ LoopOff
    /\ GHOff
    /\ LdOff /\ RunOff /\ WgOff /\ CoOff /\ EsOff /\ SgOff /\ DvOff /\ HfOff
    /\ WcOff
    /\ c_pc = "idle" /\ c_cur = 0 /\ c_swept = {}

CrWatcherStep ==
    \/ \E i \in Issues : CrWriteMarker(i)
    \/ CrUnlock
    \/ Crash
    \/ RestartSweep

\* The worker threads run while the process is up.
CrWorkerStep ==
    /\ c_pc \in {"idle", "swept", "marked"}
    /\ \E w \in Workers :
         \/ RunOnceBegin(w)
         \/ TryClaim(w)
         \/ \E rc \in {0, 1} : Route(w, rc)

NextCrash == CrWatcherStep \/ CrWorkerStep

SpecCrash == InitCrash /\ [][NextCrash]_vars

----------------------------------------------------------------------------
(* watch_tasks.py: worker threads (Worker.run) and the polling loop
   (Watcher.run) that the wave coordinator starts for each wave *)

\* Worker.run, top of the loop: list the .txt files of open/.
LoopScan(w) ==
    /\ l_pc \notin {"off", "exited"}
    /\ w_pc[w] = "idle"
    /\ w_scan' = [w_scan EXCEPT ![w] = list_sorted_txt(open)]
    /\ w_pc' = [w_pc EXCEPT ![w] = "scan"]
    /\ UNCHANGED <<open, blocked, claimed, closed, failed, dead, admin_closed,
                   attempts, sent, footer, w_cur, execs, fails, loopVars, ghVars, extVars>>

\* Worker.run, "for f in open_files": safe_move into claimed/<w>; with no
\* file claimed the worker sleeps and starts over.
LoopClaim(w) ==
    /\ l_pc \notin {"off", "exited"}
    /\ w_pc[w] = "scan"
    /\ IF w_scan[w] = <<>>
       THEN /\ w_pc' = [w_pc EXCEPT ![w] = "idle"]
            /\ UNCHANGED <<open, claimed, w_cur, w_scan>>
       ELSE LET i == extract_issue_number(Head(w_scan[w]))
            IN IF ~move_ok(open, i)
               THEN /\ w_scan' = [w_scan EXCEPT ![w] = Tail(w_scan[w])]
                    /\ UNCHANGED <<open, claimed, w_cur, w_pc>>
               ELSE /\ open' = open \ {i}
                    /\ claimed' = [claimed EXCEPT ![w] = claimed[w] \cup {i}]
                    /\ w_cur' = [w_cur EXCEPT ![w] = i]
                    /\ w_pc' = [w_pc EXCEPT ![w] = "exec"]
                    /\ w_scan' = [w_scan EXCEPT ![w] = <<>>]
    /\ UNCHANGED <<blocked, closed, failed, dead, admin_closed, attempts, sent,
                   footer, execs, fails, loopVars, ghVars, extVars>>

\* Worker.run, after invoke_codex_exec returned rc: safe_move of the claimed
\* file to failed/ or closed/ under its own name.
LoopRoute(w, rc) ==
    /\ l_pc \notin {"off", "exited"}
    /\ w_pc[w] = "exec"
    /\ rc # 0 => Sum(fails, Issues) < MaxFails
    /\ LET i == w_cur[w]
       IN /\ execs' = [execs EXCEPT ![i] = @ + 1]
          /\ claimed' = [claimed EXCEPT ![w] = claimed[w] \ {i}]
          /\ IF rc # 0
             THEN /\ failed' = failed \cup {i}
                  /\ fails' = [fails EXCEPT ![i] = @ + 1]
                  /\ closed' = closed
             ELSE /\ closed' = closed \cup {i}
                  /\ UNCHANGED <<failed, fails>>
    /\ w_pc' = [w_pc EXCEPT ![w] = "idle"]
    /\ w_cur' = [w_cur EXCEPT ![w] = 0]
    /\ UNCHANGED <<open, blocked, dead, admin_closed, attempts, sent, footer,
                   w_scan, loopVars, ghVars, extVars>>

\* Watcher.run: names in closed/ not in closed_seen, sorted, become the
\* closed files to handle; closed_seen is replaced by the listing.
ScanClosed ==
    /\ l_pc = "tick"
    /\ LET closed_now == {TaskName(i) : i \in closed}
       IN /\ l_todo' = SortNames(closed_now \ closed_seen)
          /\ closed_seen' = closed_now
    /\ l_pc' = "closed"
    /\ UNCHANGED <<fsVars, ghVars, extVars, failed_seen>>

\* _handle_closed_file for the next new closed file: marker, then every
\* dependent whose blockers all have a marker is moved blocked/ -> open/.
HandleClosedFile ==
    /\ l_pc = "closed" /\ l_todo # <<>>
    /\ LET issue_num == extract_issue_number(Head(l_todo))
           markers == admin_closed \cup {issue_num}
           moved == {dep \in edges[issue_num] :
                        /\ get_blockers_from_raw(dep) # {}
                        /\ blockers_all_closed(markers, get_blockers_from_raw(dep))
                        /\ move_ok(blocked, dep)}
       IN /\ admin_closed' = markers
          /\ blocked' = blocked \ moved
          /\ open' = open \cup moved
    /\ l_todo' = Tail(l_todo)
    /\ UNCHANGED <<claimed, closed, failed, dead, attempts, sent, footer,
                   w_pc, w_cur, w_scan, execs, fails,
                   closed_seen, failed_seen, l_pc, ghVars, extVars>>

\* Watcher.run: the same detection for failed/.
ScanFailed ==
    /\ l_pc = "closed" /\ l_todo = <<>>
    /\ LET failed_now == {TaskName(i) : i \in failed}
       IN /\ l_todo' = SortNames(failed_now \ failed_seen)
          /\ failed_seen' = failed_now
    /\ l_pc' = "failed"
    /\ UNCHANGED <<fsVars, ghVars, extVars, closed_seen>>

\* _handle_failed_file for the next new failed file: increment_attempt, then
\* dead-letter at 3 or ask the remediation LLM for a new prompt in open/
\* (wrote: whether it writes open/<issue>.txt).
HandleFailedFile(wrote) ==
    /\ l_pc = "failed" /\ l_todo # <<>>
    /\ LET i == extract_issue_number(Head(l_todo))
           n == attempts[i] + 1
       IN /\ attempts' = [attempts EXCEPT ![i] = n]
          /\ IF n >= DeadAfter
             THEN /\ failed' = failed \ {i}
                  /\ dead' = IF move_ok(failed, i) THEN dead \cup {i} ELSE dead
                  /\ UNCHANGED <<sent, open>>
             ELSE /\ sent' = [sent EXCEPT ![i] = @ + 1]
                  /\ open' = IF wrote THEN open \cup {i} ELSE open
                  /\ UNCHANGED <<failed, dead>>
    /\ l_todo' = Tail(l_todo)
    /\ UNCHANGED <<blocked, claimed, closed, admin_closed, footer,
                   w_pc, w_cur, w_scan, execs, fails,
                   closed_seen, failed_seen, l_pc, ghVars, extVars>>

\* Worker.is_busy for every worker: current_issue is set while the LLM runs.
all_idle == \A w \in Workers : w_pc[w] # "exec"

\* maybe_finish, then time.sleep(2): the process exits when open/ and
\* blocked/ are empty and no worker is busy, else the loop starts over.
MaybeFinish ==
    /\ l_pc = "failed" /\ l_todo = <<>>
    /\ l_pc' = IF open = {} /\ blocked = {} /\ all_idle THEN "exited" ELSE "tick"
    /\ UNCHANGED <<fsVars, ghVars, extVars, closed_seen, failed_seen, l_todo>>

\* Issues with blockers.  open/ may already hold a newer prompt for one of
\* them (written by a remediation or generated again) next to the copy in
\* blocked/.
Dependents == {i \in Issues : raw_blockedBy[i] # {}}

\* Watcher.__init__ and start_workers.  coordinate_waves.py starts this
\* process once per wave on the same directories: issues of Earlier were
\* closed before this watcher process started, their prompt is in closed/
\* with its marker, and __init__ takes every such file as seen.
InitLoop ==
    /\ \E done \in SUBSET Earlier, pre \in SUBSET Dependents :
          /\ closed = done
          /\ admin_closed = done
          /\ open = {i \in Issues \ done : raw_blockedBy[i] = {}} \cup pre
          /\ closed_seen = {TaskName(i) : i \in done}
    /\ blocked = {i \in Issues : raw_blockedBy[i] # {}}
    /\ failed = {} /\ dead = {}
    /\ attempts = [i \in Issues |-> 0]
    /\ sent = [i \in Issues |-> 0]
    /\ footer = {}
    /\ WorkersIdle
    /\ failed_seen = {}
    /\ l_pc = "tick"
    /\ l_todo = <<>>
    /\ GHOff
    /\ ExtOff

LoopWorkerStep ==
    \E w \in Workers :
        \/ LoopScan(w)
        \/ LoopClaim(w)
        \/ \E rc \in {0, 1} : LoopRoute(w, rc)

LoopWatcherStep ==
    \/ ScanClosed
    \/ HandleClosedFile
    \/ ScanFailed
    \/ \E wrote \in BOOLEAN : HandleFailedFile(wrote)
    \/ MaybeFinish

NextLoop == LoopWorkerStep \/ LoopWatcherStep

SpecLoop == InitLoop /\ [][NextLoop]_vars

----------------------------------------------------------------------------
(* taskwatch/domain_gh.py and watch_tasks_gh.py: GitHub-fields backend *)

\* The process is started again at most this many times.
MaxRestarts == 1

\* Issues of the wave (_list_wave_issues_from_gh) and their blockers
\* (BlockersCache.get_blockers).  Issue 1 is no project item: it belongs to
\* no wave and is closed on GitHub by hand.
WaveIssues == {3}
gh_blockers == [i \in WaveIssues |-> IF i = 3 THEN {1} ELSE {}]

\* One cache entry: the flattened fields of a project item.
Fields(st, wk, at) == [state |-> st, worker |-> wk, attempt |-> at]

\* gh.list_items as refresh_cache simplifies it, for the given field values.
Snapshot(st, wk, at) == [i \in WaveIssues |-> Fields(st[i], wk[i], at[i])]

\* unlock_sweep opens an issue only below this cached attempt count.
OpenBelow == 3

\* work_issue dead-letters a failed issue from this attempt count on.
DeadFrom == 3

\* _is_leader without its freshness test.
is_leader_always(fresh) == TRUE

\* _is_leader with leader_ttl_sec = 15: a heartbeat younger than the TTL
\* makes the caller stand down, whoever wrote it; otherwise the caller writes
\* its own heartbeat and leads.
is_leader(fresh) == ~fresh

\* refresh_cache(force) called when the heartbeat is fresh or not; due:
\* whether refresh_interval_sec has passed since the last refresh.  The new
\* cache, or the old one when the caller stands down or skips the refresh.
refresh_cache(fresh, force, due, st, wk, at) ==
    IF is_leader(fresh) /\ (force \/ due) THEN Snapshot(st, wk, at) ELSE cache

\* initialize_items: every wave issue gets attempt 0 and state "blocked",
\* then the cache is primed.
InitializeItems ==
    /\ g_pc = "start"
    /\ gh_state' = [i \in WaveIssues |-> "blocked"]
    /\ gh_attempt' = [i \in WaveIssues |-> 0]
    /\ gh_worker' = gh_worker
    /\ cache' = refresh_cache(hb_fresh, FALSE, TRUE, gh_state', gh_worker, gh_attempt')
    /\ hb_fresh' = TRUE
    /\ g_pc' = "sweep0"
    /\ UNCHANGED <<fsVars, loopVars, extVars, locks, stale, gw_pc, gw_cur, gw_cands,
                   gw_remote, gw_att, restarts, issue_closed>>

\* BlockersCache.get_blockers: the entry of the issue when it is younger
\* than ttl_sec, else GHCLI.get_blockers, whose result is stored; a failed
\* lookup gives [] and that is stored as well.
get_blockers(issue) == IF issue \in bl_lost THEN {} ELSE gh_blockers[issue]

\* _blockers_satisfied: no blockers, or: a blocker found in the cache snapshot must be cached
\* as closed (all cached items are of this wave); any other passes when it
\* is closed on GitHub (fetch_issue_json) or when get_issue_wave_by_label
\* gives a wave below the current one.
blockers_satisfied(issue) ==
    \A b \in get_blockers(issue) :
        IF b \in WaveIssues THEN cache[b].state = "closed"
        ELSE b \in issue_closed \/ b \in lbl_earlier

\* The issues unlock_sweep opens: cached state blocked or failure, blockers
\* satisfied, cached attempt count below 3.
to_open ==
    {i \in WaveIssues :
        /\ cache[i].state \in {"blocked", "failure"}
        /\ blockers_satisfied(i)
        /\ cache[i].attempt < OpenBelow}

\* unlock_sweep(wave).  lag: the GitHub calls of the pass took at least the
\* leader TTL, so that the closing refresh_cache finds the heartbeat stale;
\* due: the refresh interval has passed.
UnlockSweep(lag, due) ==
    /\ g_pc \in {"sweep0", "us"}
    /\ IF ~is_leader(hb_fresh)
       THEN UNCHANGED <<gh_state, gh_attempt, cache, hb_fresh>>
       ELSE LET after == ~lag
            IN /\ gh_attempt' = [i \in WaveIssues |->
                      IF i \in to_open THEN cache[i].attempt + 1 ELSE gh_attempt[i]]
               /\ gh_state' = [i \in WaveIssues |->
                      IF i \in to_open THEN "open" ELSE gh_state[i]]
               /\ cache' = refresh_cache(after, to_open # {}, due,
                                         gh_state', gh_worker, gh_attempt')
               /\ hb_fresh' = TRUE
    /\ g_pc' = IF g_pc = "sweep0" THEN "wl" ELSE "sleep"
    /\ UNCHANGED <<fsVars, loopVars, extVars, gh_worker, locks, stale, gw_pc, gw_cur,
                   gw_cands, gw_remote, gw_att, restarts, issue_closed>>

\* watch_locks().  Every lock file younger than lock_ttl_sec is reflected
\* into the fields (worker id, state "claimed"); older ones are unlinked.
WatchLocks(lag, due) ==
    /\ g_pc = "wl"
    /\ IF ~is_leader(hb_fresh)
       THEN UNCHANGED <<gh_state, gh_worker, cache, locks, stale, hb_fresh>>
       ELSE LET live == {i \in WaveIssues : locks[i] # 0 /\ i \notin stale}
                after == ~lag
            IN /\ locks' = [i \in WaveIssues |-> IF i \in stale THEN 0 ELSE locks[i]]
               /\ stale' = {}
               /\ gh_worker' = [i \in WaveIssues |->
                      IF i \in live THEN locks[i] ELSE gh_worker[i]]
               /\ gh_state' = [i \in WaveIssues |->
                      IF i \in live THEN "claimed" ELSE gh_state[i]]
               /\ cache' = refresh_cache(after, live # {}, due,
                                         gh_state', gh_worker', gh_attempt)
               /\ hb_fresh' = TRUE
    /\ g_pc' = "us"
    /\ UNCHANGED <<fsVars, loopVars, extVars, gh_attempt, gw_pc, gw_cur, gw_cands,
                   gw_remote, gw_att, restarts, issue_closed>>

\* time.sleep(2) at the end of a watcher_loop iteration.
Sleep ==
    /\ g_pc = "sleep"
    /\ g_pc' = "wl"
    /\ UNCHANGED <<fsVars, loopVars, extVars, gh_state, gh_worker, gh_attempt, cache,
                   locks, stale, hb_fresh, gw_pc, gw_cur, gw_cands,
                   gw_remote, gw_att, restarts, issue_closed>>

\* Time passes: the heartbeat's ts is now leader_ttl_sec or more in the past.
HeartbeatExpires ==
    /\ g_pc \notin {"off", "done"}
    /\ hb_fresh
    /\ hb_fresh' = FALSE
    /\ UNCHANGED <<fsVars, loopVars, extVars, gh_state, gh_worker, gh_attempt, cache,
                   locks, stale, g_pc, gw_pc, gw_cur, gw_cands,
                   gw_remote, gw_att, restarts, issue_closed>>

\* The worker threads run while the process is in its watcher loop.
Running == g_pc \in {"wl", "us", "sleep"}

\* worker_loop: _list_open_issues reads the open issues of the wave from the
\* items cache, sorted.
ListOpen(w) ==
    /\ Running /\ gw_pc[w] = "idle"
    /\ LET open_issues == SortInts({i \in WaveIssues : cache[i].state = "open"})
       IN /\ open_issues # <<>>
          /\ gw_cands' = [gw_cands EXCEPT ![w] = open_issues]
    /\ gw_pc' = [gw_pc EXCEPT ![w] = "claim"]
    /\ UNCHANGED <<fsVars, loopVars, extVars, gh_state, gh_worker, gh_attempt, cache,
                   locks, stale, hb_fresh, g_pc, gw_cur, gw_remote,
                   gw_att, restarts, issue_closed>>

\* claim_and_verify, first statement: _atomic_lock_create (O_CREAT|O_EXCL);
\* an existing lock file makes the worker skip to the next open issue.
LockCreate(w) ==
    /\ Running /\ gw_pc[w] = "claim"
    /\ IF gw_cands[w] = <<>>
       THEN /\ gw_pc' = [gw_pc EXCEPT ![w] = "idle"]
            /\ UNCHANGED <<locks, gw_cur, gw_cands, gw_remote>>
       ELSE LET issue == Head(gw_cands[w])
            IN IF locks[issue] # 0
               THEN /\ gw_cands' = [gw_cands EXCEPT ![w] = Tail(gw_cands[w])]
                    /\ UNCHANGED <<locks, gw_cur, gw_pc, gw_remote>>
               ELSE /\ locks' = [locks EXCEPT ![issue] = w]
                    /\ gw_cur' = [gw_cur EXCEPT ![w] = issue]
                    /\ gw_remote' = [gw_remote EXCEPT ![w] = FALSE]
                    /\ gw_pc' = [gw_pc EXCEPT ![w] = "verify"]
                    /\ gw_cands' = gw_cands
    /\ UNCHANGED <<fsVars, loopVars, extVars, gh_state, gh_worker, gh_attempt, cache,
                   stale, hb_fresh, g_pc, gw_att, restarts, issue_closed>>

\* _fields_confirm_claim: the slaps-worker value equals the worker's id.
fields_confirm_claim(worker_field, w) == worker_field = w

\* claim_and_verify, the wait loop.  how = "cache": the cached fields
\* confirm; "remote": the one get_item_fields call made after five misses;
\* "timeout": 60 s passed (the remote check was made long before and did
\* not confirm), the lock is removed and the claim given up.
Verify(w, how) ==
    /\ Running /\ gw_pc[w] = "verify"
    /\ LET issue == gw_cur[w]
       IN CASE how = "cache" ->
                 /\ fields_confirm_claim(cache[issue].worker, w)
                 /\ gw_pc' = [gw_pc EXCEPT ![w] = "exec"]
                 /\ gw_cands' = [gw_cands EXCEPT ![w] = <<>>]
                 /\ UNCHANGED <<locks, stale, gw_cur, gw_remote>>
            [] how = "remote" ->
                 /\ ~fields_confirm_claim(cache[issue].worker, w)
                 /\ ~gw_remote[w]
                 /\ IF fields_confirm_claim(gh_worker[issue], w)
                    THEN /\ gw_pc' = [gw_pc EXCEPT ![w] = "exec"]
                         /\ gw_cands' = [gw_cands EXCEPT ![w] = <<>>]
                         /\ gw_remote' = gw_remote
                    ELSE /\ gw_remote' = [gw_remote EXCEPT ![w] = TRUE]
                         /\ UNCHANGED <<gw_pc, gw_cands>>
                 /\ UNCHANGED <<locks, stale, gw_cur>>
            [] OTHER ->
                 /\ ~fields_confirm_claim(cache[issue].worker, w)
                 /\ gw_remote[w]
                 /\ locks' = [locks EXCEPT ![issue] = 0]
                 /\ stale' = stale \ {issue}
                 /\ gw_cur' = [gw_cur EXCEPT ![w] = 0]
                 /\ gw_cands' = [gw_cands EXCEPT ![w] = Tail(gw_cands[w])]
                 /\ gw_pc' = [gw_pc EXCEPT ![w] = "claim"]
                 /\ gw_remote' = [gw_remote EXCEPT ![w] = FALSE]
    /\ UNCHANGED <<fsVars, loopVars, extVars, gh_state, gh_worker, gh_attempt, cache,
                   hb_fresh, g_pc, gw_att, restarts, issue_closed>>

\* work_issue up to its first state write: the LLM returned rc.  rc = 0
\* writes "closed"; otherwise the attempt count read back decides between
\* "dead" and "failure".
WorkIssue(w, rc) ==
    /\ Running /\ gw_pc[w] = "exec"
    /\ LET issue == gw_cur[w]
           cur_attempt == gh_attempt[issue]
       IN /\ gh_state' = [gh_state EXCEPT ![issue] =
                 IF rc = 0 THEN "closed"
                 ELSE IF cur_attempt >= DeadFrom THEN "dead" ELSE "failure"]
          /\ gw_att' = [gw_att EXCEPT ![w] =
                 IF rc # 0 /\ cur_attempt < DeadFrom THEN cur_attempt ELSE 0]
          /\ gw_pc' = [gw_pc EXCEPT ![w] =
                 IF rc # 0 /\ cur_attempt < DeadFrom THEN "reopen" ELSE "release"]
    /\ UNCHANGED <<fsVars, loopVars, extVars, gh_worker, gh_attempt, cache, locks, stale,
                   hb_fresh, g_pc, gw_cur, gw_cands, gw_remote, restarts, issue_closed>>

\* work_issue after the remediation plan: attempt count cur_attempt + 1 and
\* state "open".
Reopen(w) ==
    /\ Running /\ gw_pc[w] = "reopen"
    /\ LET issue == gw_cur[w]
       IN /\ gh_attempt' = [gh_attempt EXCEPT ![issue] = gw_att[w] + 1]
          /\ gh_state' = [gh_state EXCEPT ![issue] = "open"]
    /\ gw_pc' = [gw_pc EXCEPT ![w] = "release"]
    /\ gw_att' = [gw_att EXCEPT ![w] = 0]
    /\ UNCHANGED <<fsVars, loopVars, extVars, gh_worker, cache, locks, stale, hb_fresh,
                   g_pc, gw_cur, gw_cands, gw_remote, restarts, issue_closed>>

\* work_issue, _remove_lock: unlink lock/<issue>.lock.txt, back to the loop.
RemoveLock(w) ==
    /\ Running /\ gw_pc[w] = "release"
    /\ locks' = [locks EXCEPT ![gw_cur[w]] = 0]
    /\ stale' = stale \ {gw_cur[w]}
    /\ gw_pc' = [gw_pc EXCEPT ![w] = "idle"]
    /\ gw_cur' = [gw_cur EXCEPT ![w] = 0]
    /\ gw_att' = [gw_att EXCEPT ![w] = 0]
    /\ UNCHANGED <<fsVars, loopVars, extVars, gh_state, gh_worker, gh_attempt, cache,
                   hb_fresh, g_pc, gw_cands, gw_remote, restarts, issue_closed>>

\* A lock file becomes older than lock_ttl_sec (1800 s): its holder is still
\* inside llm.exec, which work_issue calls without a timeout, or the holder
\* died with the previous process.
LockExpires(i) ==
    /\ g_pc \notin {"off", "done"}
    /\ locks[i] # 0 /\ i \notin stale
    /\ \/ gw_pc[locks[i]] = "exec" /\ gw_cur[locks[i]] = i
       \/ gw_cur[locks[i]] # i
    /\ stale' = stale \cup {i}
    /\ UNCHANGED <<fsVars, loopVars, extVars, gh_state, gh_worker, gh_attempt, cache,
                   locks, hb_fresh, g_pc, gw_pc, gw_cur, gw_cands,
                   gw_remote, gw_att, restarts, issue_closed>>

\* main, finish condition: every wave issue is closed or dead; stop is set
\* and the process returns, ending its daemon threads.
Finish ==
    /\ Running
    /\ \A i \in WaveIssues : gh_state[i] \in {"closed", "dead"}
    /\ g_pc' = "done"
    /\ gw_pc' = [w \in Workers |-> "idle"]
    /\ gw_cur' = [w \in Workers |-> 0]
    /\ gw_cands' = [w \in Workers |-> <<>>]
    /\ UNCHANGED <<fsVars, loopVars, extVars, gh_state, gh_worker, gh_attempt, cache,
                   locks, stale, hb_fresh, gw_remote, gw_att, restarts, issue_closed>>

\* The process ends (signal, crash, or after Finish) and main runs again for
\* the same wave: new threads, a new GHWatcher, the files on disk as left.
Restart ==
    /\ g_pc \notin {"off", "start"}
    /\ restarts < MaxRestarts
    /\ restarts' = restarts + 1
    /\ g_pc' = "start"
    /\ gw_pc' = [w \in Workers |-> "idle"]
    /\ gw_cur' = [w \in Workers |-> 0]
    /\ gw_cands' = [w \in Workers |-> <<>>]
    /\ gw_remote' = [w \in Workers |-> FALSE]
    /\ gw_att' = [w \in Workers |-> 0]
    /\ UNCHANGED <<fsVars, loopVars, extVars, gh_state, gh_worker, gh_attempt, cache,
                   locks, stale, hb_fresh, issue_closed>>

\* An issue outside the wave is closed on GitHub.
IssueCloses(b) ==
    /\ g_pc \notin {"off", "done"}
    /\ b \notin WaveIssues /\ b \notin issue_closed
    /\ issue_closed' = issue_closed \cup {b}
    /\ UNCHANGED <<fsVars, loopVars, extVars, gh_state, gh_worker, gh_attempt, cache,
                   locks, stale, hb_fresh, g_pc, gw_pc, gw_cur, gw_cands,
                   gw_remote, gw_att, restarts>>

\* The filesystem queue is not in use in SpecGH.
FSOff ==
    /\ open = {} /\ blocked = {} /\ closed = {} /\ failed = {} /\ dead = {}
    /\ admin_closed = {}
    /\ attempts = [i \in Issues |-> 0]
    /\ sent = [i \in Issues |-> 0]
    /\ footer = {}
    /\ WorkersIdle
    /\ LoopOff

\* First start of main for the wave, after preflight: the project items have
\* no field values yet, there is no cache, no lock and no heartbeat file.
InitGHFields ==
    /\ FSOff
    /\ gh_state = [i \in WaveIssues |-> "none"]
    /\ gh_worker = [i \in WaveIssues |-> 0]
    /\ gh_attempt = [i \in WaveIssues |-> 0]
    /\ cache = [i \in WaveIssues |-> Fields("none", 0, 0)]
    /\ locks = [i \in WaveIssues |-> 0]
    /\ stale = {}
    /\ hb_fresh = FALSE
    /\ g_pc = "start"
    /\ gw_pc = [w \in Workers |-> "idle"]
    /\ gw_cur = [w \in Workers |-> 0]
    /\ gw_cands = [w \in Workers |-> <<>>]
    /\ gw_remote = [w \in Workers |-> FALSE]
    /\ gw_att = [w \in Workers |-> 0]
    /\ restarts = 0
    /\ issue_closed = {}

InitGH == InitGHFields /\ ExtOff

GHWatcherStep ==
    \/ InitializeItems
    \/ \E lag, due \in BOOLEAN : UnlockSweep(lag, due)
    \/ \E lag, due \in BOOLEAN : WatchLocks(lag, due)
    \/ Sleep

GHWorkerStep ==
    \E w \in Workers :
        \/ ListOpen(w)
        \/ LockCreate(w)
        \/ \E how \in {"cache", "remote", "timeout"} : Verify(w, how)
        \/ \E rc \in {0, 1} : WorkIssue(w, rc)
        \/ Reopen(w)
        \/ RemoveLock(w)

GHEnvStep ==
    \/ HeartbeatExpires
    \/ \E i \in WaveIssues : LockExpires(i)
    \/ \E b \in UNION {gh_blockers[i] : i \in WaveIssues} : IssueCloses(b)
    \/ Finish
    \/ Restart

NextGH == GHWatcherStep \/ GHWorkerStep \/ GHEnvStep

SpecGH == InitGH /\ [][NextGH]_vars

\* The watcher thread keeps running its loop, the worker threads theirs, and
\* time passes; restarts, lock expiry and the closing of outside issues are
\* left to the environment.
FairSpecGH ==
    /\ SpecGH
    /\ WF_vars(GHWatcherStep)
    /\ WF_vars(GHWorkerStep)
    /\ WF_vars(HeartbeatExpires)

\* The same process on a wave whose outside blockers may carry the label
\* (milestone::M<k>) of an earlier wave.
InitGHWaves ==
    /\ InitGHFields
    /\ LdOff /\ RunOff /\ CrOff /\ RmOff /\ CoOff /\ EsOff /\ SgOff /\ DvOff /\ HfOff
    /\ WcOff
    /\ lbl_earlier \in SUBSET (UNION {gh_blockers[i] : i \in WaveIssues} \ WaveIssues)
    /\ bl_lost = {}

SpecGHWaves == InitGHWaves /\ [][NextGH]_vars

\* The same process when the dependency lookup of an issue may have failed
\* (gh api graphql exits non-zero, or the repository is not resolved).
InitGHLookup ==
    /\ InitGHFields
    /\ LdOff /\ RunOff /\ CrOff /\ RmOff /\ CoOff /\ EsOff /\ SgOff /\ DvOff /\ HfOff
    /\ WcOff
    /\ lbl_earlier = {}
    /\ bl_lost \in SUBSET WaveIssues

SpecGHLookup == InitGHLookup /\ [][NextGH]_vars

----------------------------------------------------------------------------
(* taskwatch/domain.py: Worker._ensure_estimate_for and the LLM timeout *)

\* What the estimator LLM prints: "7", "3", "70", "0", "", "1-2".
EstOutputs == {<<55>>, <<51>>, <<55, 48>>, <<48>>, <<>>, <<49, 45, 50>>}

\* int("".join(ch for ch in out if ch.isdigit()) or "0")
digits_to_int(out) == ParseDigits(SelectSeq(out, IsDigit), 1, 0)

\* The minutes taken from an estimator run: the digits of its output when
\* it exits 0, and 20 when that gives nothing above 0.
minutes_of(rc, out) ==
    LET minutes == IF rc = 0 THEN digits_to_int(out) ELSE 0
    IN IF minutes <= 0 THEN 20 ELSE minutes

Max(a, b) == IF a >= b THEN a ELSE b
Min(a, b) == IF a <= b THEN a ELSE b

\* max(600, min(self.estimate_sec * 2, 7200))
timeout_for(estimate_sec) == Max(600, Min(estimate_sec * 2, 7200))

\* current attempt = failures + 1, at least 1.
current_attempt(n) == Max(1, n + 1)

\* A cache test that takes any stored estimate.
cached_any(data, attempt) ==
    data.estimate_sec # 0 /\ data.timeout_sec # 0

\* "cached_attempt == current_attempt and self.estimate_sec and
\* self.timeout_sec": the stored estimate is used.
cached_hit(data, attempt) ==
    data.attempt = attempt /\ data.estimate_sec # 0 /\ data.timeout_sec # 0

\* run_once has a task in claimed/<w> (claimed now or resumed):
\* _ensure_estimate_for, then llm.exec with timeout_sec.  rc and out are
\* what the estimator would return; it is run only without a cache hit.
EsEnsure(rc, out) ==
    /\ es_pc = "claim"
    /\ IF cached_hit(es_cache, current_attempt(es_fail))
       THEN /\ es_sec' = es_cache.estimate_sec
            /\ es_timeout' = es_cache.timeout_sec
            /\ es_cache' = es_cache
            /\ es_in' = [rc |-> 0, out |-> <<>>, ran |-> FALSE]
       ELSE /\ es_sec' = minutes_of(rc, out) * 60
            /\ es_timeout' = timeout_for(es_sec')
            /\ es_cache' = [attempt |-> current_attempt(es_fail),
                            estimate_sec |-> es_sec',
                            timeout_sec |-> es_timeout']
            /\ es_in' = [rc |-> rc, out |-> out, ran |-> TRUE]
    /\ es_llm' = es_timeout'
    /\ es_pc' = "exec"
    /\ UNCHANGED <<notEs, es_fail>>

\* The task LLM returned: the file is routed, estimate_sec and timeout_sec
\* are reset; after a non-zero exit handle_failed counts the failure and the
\* remediation puts the task back into open/, where it is claimed again.
EsRoute(rc) ==
    /\ es_pc = "exec"
    /\ es_sec' = 0 /\ es_timeout' = 0
    /\ IF rc = 0
       THEN es_pc' = "closed" /\ es_fail' = es_fail
       ELSE /\ es_fail' = inc_attempt(es_fail)
            /\ es_pc' = IF es_fail' >= DeadAfter THEN "dead" ELSE "claim"
    /\ UNCHANGED <<notEs, es_cache, es_llm, es_in>>

\* The worker dies while the task LLM runs; the file stays in claimed/<w>
\* and a new Worker resumes it.
EsWorkerDies ==
    /\ es_pc = "exec"
    /\ es_pc' = "claim"
    /\ es_sec' = 0 /\ es_timeout' = 0
    /\ UNCHANGED <<notEs, es_fail, es_cache, es_llm, es_in>>

\* A task is claimed for the first time: no failure recorded, no estimate
\* stored.
InitEstimate ==
    /\ FSOff /\ GHOff
    /\ LdOff /\ RunOff /\ CrOff /\ WgOff /\ RmOff /\ CoOff /\ SgOff /\ DvOff /\ HfOff
    /\ WcOff
    /\ es_pc = "claim" /\ es_fail = 0
    /\ es_cache = NoEstimate
    /\ es_sec = 0 /\ es_timeout = 0 /\ es_llm = 0
    /\ es_in = [rc |-> 0, out |-> <<>>, ran |-> FALSE]

NextEstimate ==
    \/ \E rc \in {0, 1}, out \in EstOutputs : EsEnsure(rc, out)
    \/ \E rc \in {0, 1} : EsRoute(rc)
    \/ EsWorkerDies

SpecEstimate == InitEstimate /\ [][NextEstimate]_vars

----------------------------------------------------------------------------
(* coordinate_waves.py: main *)

\* Highest wave number a roadmap declares.
MaxWave == 2
Waves == 1..MaxWave

\* Exit codes of the watcher process (0 from final_report_and_exit, 130 on
\* KeyboardInterrupt, 1 on an uncaught exception), of "codex exec" and of
\* "git push" (127: binary not found).
WatcherCodes == {0, 1, 130}
ToolCodes == {0, 1, 127}

\* What main has recorded of one wave: was it started, the exit codes of
\* the watcher, the follow-up watcher, the guardian and the push (-1: not
\* run), the value count_dead returned (-1: not counted), the guardian
\* passes run, the tasks its watcher runs moved to .slaps/tasks/dead,
\* whether 'wave_complete' was emitted, whether the worker logs held
\* follow-up notes for the wave when process_followups ran, and whether it
\* wrote <wave>/open/0000-followups.txt.
NoWave == [started |-> FALSE, wrc |-> -1, fwrc |-> -1, dead_count |-> -1,
           guardians |-> 0, grc |-> -1, prc |-> -1, deadlettered |-> 0,
           complete |-> FALSE, notes |-> FALSE, enqueued |-> FALSE]

\* process_followups.main(--wave): exit 2 when the roadmap gives no wave
\* map; exit 0 without a prompt when no note belongs to the wave; else the
\* consolidated prompt is written and the exit code is 0.
process_followups(wave, map_ok, notes) ==
    IF wave <= 0 \/ ~map_ok THEN [rc |-> 2, enqueued |-> FALSE]
    ELSE IF ~notes THEN [rc |-> 0, enqueued |-> FALSE]
    ELSE [rc |-> 0, enqueued |-> TRUE]

\* A coordinator that goes on whatever a step returned.
aborts_never(rc) == FALSE

\* "if rc != 0: ... return 1", the test main makes after each step.
aborts(rc) == rc # 0

\* count_dead(base, wave): the files of .slaps/tasks/<wave>/dead, 0 when
\* the directory does not exist.
count_dead(wave) == co_wdead[wave]

\* Leaving main with the given exit code.
CoReturn(code) ==
    /\ co_exit' = code
    /\ co_pc' = "done"

\* The next iteration of "for wave in range(wave_start, max_wave + 1)", or
\* 'all_complete' and return 0 when the range is exhausted.
CoLoop(wave) ==
    IF wave > co_max
    THEN CoReturn(0) /\ co_wave' = co_wave
    ELSE /\ co_pc' = "watcher"
         /\ co_wave' = wave
         /\ co_exit' = co_exit

\* Argument parsing and the configuration test.
CoConfig ==
    /\ co_pc = "start"
    /\ IF co_start <= 0 \/ co_max <= 0
       THEN CoReturn(2)
       ELSE co_pc' = "preflight" /\ co_exit' = co_exit
    /\ UNCHANGED <<notCo, co_wave, co_start, co_max, co_pre,
                   co_wdead, co_hist>>

\* preflight(jsonl): docker, make targets, commit and push.
CoPreflight(rc) ==
    /\ co_pc = "preflight"
    /\ co_pre' = IF rc = 0 THEN "passed" ELSE "failed"
    /\ IF aborts(rc)
       THEN CoReturn(1) /\ co_wave' = co_wave
       ELSE CoLoop(co_start)
    /\ UNCHANGED <<notCo, co_start, co_max, co_wdead, co_hist>>

\* run_watcher(wave): tools.tasks.watch_tasks runs to its exit; dl is the
\* number of tasks it moved to its dead letter queue, .slaps/tasks/dead.
CoRunWatcher(rc, dl) ==
    /\ co_pc = "watcher"
    /\ co_hist' = [co_hist EXCEPT ![co_wave] =
           [@ EXCEPT !.started = TRUE, !.wrc = rc,
                     !.deadlettered = @ + dl]]
    /\ IF aborts(rc)
       THEN CoReturn(1)
       ELSE co_pc' = "followups" /\ co_exit' = co_exit
    /\ UNCHANGED <<notCo, co_wave, co_start, co_max, co_pre,
                   co_wdead>>

\* run_followups(wave) and "if frc == 0": exit code 0 of
\* process_followups leads to a follow-up watcher pass.
CoFollowups(map_ok, notes) ==
    /\ co_pc = "followups"
    /\ LET fu == process_followups(co_wave, map_ok, notes)
       IN /\ co_hist' = [co_hist EXCEPT ![co_wave] =
                 [@ EXCEPT !.notes = notes, !.enqueued = fu.enqueued]]
          /\ co_pc' = IF fu.rc = 0 THEN "fu_watcher" ELSE "count"
    /\ UNCHANGED <<notCo, co_wave, co_exit, co_start, co_max,
                   co_pre, co_wdead>>

\* The follow-up watcher pass.
CoFollowupWatcher(rc, dl) ==
    /\ co_pc = "fu_watcher"
    /\ co_hist' = [co_hist EXCEPT ![co_wave] =
           [@ EXCEPT !.fwrc = rc, !.deadlettered = IF @ + dl > 1 THEN 1 ELSE @ + dl]]
    /\ IF aborts(rc)
       THEN CoReturn(1)
       ELSE co_pc' = "count" /\ co_exit' = co_exit
    /\ UNCHANGED <<notCo, co_wave, co_start, co_max, co_pre,
                   co_wdead>>

\* dead_count = count_dead(base, wave) and its test.
CoCountDead ==
    /\ co_pc = "count"
    /\ co_hist' = [co_hist EXCEPT ![co_wave] =
           [@ EXCEPT !.dead_count = count_dead(co_wave)]]
    /\ IF count_dead(co_wave) > 0
       THEN CoReturn(1)
       ELSE co_pc' = "guardian" /\ co_exit' = co_exit
    /\ UNCHANGED <<notCo, co_wave, co_start, co_max, co_pre,
                   co_wdead>>

\* run_guardian(jsonl).
CoGuardian(rc) ==
    /\ co_pc = "guardian"
    /\ co_hist' = [co_hist EXCEPT ![co_wave] =
           [@ EXCEPT !.guardians = @ + 1, !.grc = rc]]
    /\ IF aborts(rc)
       THEN CoReturn(1)
       ELSE co_pc' = "push" /\ co_exit' = co_exit
    /\ UNCHANGED <<notCo, co_wave, co_start, co_max, co_pre,
                   co_wdead>>

\* push_changes(jsonl), 'wave_complete', and on to the next wave.
CoPush(prc) ==
    /\ co_pc = "push"
    /\ co_hist' = [co_hist EXCEPT ![co_wave] =
           [@ EXCEPT !.prc = prc, !.complete = ~aborts(prc)]]
    /\ IF aborts(prc)
       THEN CoReturn(1) /\ co_wave' = co_wave
       ELSE CoLoop(co_wave + 1)
    /\ UNCHANGED <<notCo, co_start, co_max, co_pre, co_wdead>>

\* main is started with some --waveStart on some roadmap; a wave's dead
\* directory under .slaps/tasks/<wave>/ may hold files.
InitCoord ==
    /\ FSOff /\ GHOff
    /\ LdOff /\ RunOff /\ CrOff /\ WgOff /\ RmOff /\ EsOff /\ SgOff /\ DvOff /\ HfOff
    /\ WcOff
    /\ co_pc = "start" /\ co_wave = 0 /\ co_exit = -1
    /\ co_start \in 0..MaxWave
    /\ co_max \in 0..MaxWave
    /\ co_pre = "none"
    /\ co_wdead \in [Waves -> {0, 1}]
    /\ co_hist = [w \in Waves |-> NoWave]

NextCoord ==
    \/ CoConfig
    \/ \E rc \in {0, 1} : CoPreflight(rc)
    \/ \E rc \in WatcherCodes, dl \in {0, 1} : CoRunWatcher(rc, dl)
    \/ \E map_ok \in BOOLEAN, notes \in BOOLEAN : CoFollowups(map_ok, notes)
    \/ \E rc \in WatcherCodes, dl \in {0, 1} : CoFollowupWatcher(rc, dl)
    \/ CoCountDead
    \/ \E rc \in ToolCodes : CoGuardian(rc)
    \/ \E prc \in ToolCodes : CoPush(prc)

SpecCoord == InitCoord /\ [][NextCoord]_vars

----------------------------------------------------------------------------
(* Several watch_tasks_gh.py processes on one checkout: leader election *)

\* Watcher processes that share admin/gh_watcher_leader.json, the lock
\* directory and the items cache.
NProcs == 2
Procs == 1..NProcs

\* _is_leader, the read: process p enters one of the passes that begin with
\* "if not self._is_leader(): return" (watch_locks, unlock_sweep,
\* refresh_cache, reconcile_closed_state) and reads the
\* heartbeat file.  A fresh heartbeat ends the pass at once (return False,
\* the pass returns); otherwise p goes on to write its own.  The read and
\* the write are the same for every pass.
IsLeaderRead(p) ==
    /\ g_pc = "multi" /\ ld_pc[p] = "idle"
    /\ ld_actor' = p
    /\ IF is_leader(hb_fresh)
       THEN /\ ld_pc' = [ld_pc EXCEPT ![p] = "won"]
            /\ ld_last' = "won"
       ELSE /\ ld_last' = "stood"
            /\ UNCHANGED ld_pc
    /\ UNCHANGED <<fsVars, loopVars, runVars, moreVars, ghVars, hb_owner, lock_int, led>>

\* _is_leader, the write: p overwrites the heartbeat file with its own pid
\* and returns True.
IsLeaderWrite(p) ==
    /\ g_pc = "multi" /\ ld_pc[p] = "won"
    /\ ld_actor' = p
    /\ hb_owner' = p
    /\ hb_fresh' = TRUE
    /\ led' = led \cup {p}
    /\ ld_pc' = [ld_pc EXCEPT ![p] = "lead"]
    /\ ld_last' = "led"
    /\ UNCHANGED <<fsVars, loopVars, runVars, moreVars, gh_state, gh_worker, gh_attempt, cache,
                   locks, stale, g_pc, gw_pc, gw_cur, gw_cands, gw_remote,
                   gw_att, restarts, issue_closed, lock_int>>

\* The locks watch_locks unlinks: the payload is a JSON record whose
\* started_at is more than lock_ttl_sec in the past.  A bare worker id
\* carries no started_at and is never unlinked.
reaped == {i \in WaveIssues : locks[i] # 0 /\ i \in stale /\ i \notin lock_int}

\* watch_locks after _is_leader returned True: stale locks unlinked, every
\* other lock reflected into the fields, _heartbeat, then refresh_cache.
WatchLocksBody(p, lag, due) ==
    /\ g_pc = "multi" /\ ld_pc[p] = "lead"
    /\ ld_actor' = p /\ ld_last' = "watch_locks"
    /\ LET live == {i \in WaveIssues : locks[i] # 0 /\ i \notin reaped}
       IN /\ locks' = [i \in WaveIssues |-> IF i \in reaped THEN 0 ELSE locks[i]]
          /\ stale' = stale \ reaped
          /\ gh_worker' = [i \in WaveIssues |->
                 IF i \in live THEN locks[i] ELSE gh_worker[i]]
          /\ gh_state' = [i \in WaveIssues |->
                 IF i \in live THEN "claimed" ELSE gh_state[i]]
          /\ cache' = refresh_cache(~lag, live # {}, due,
                                    gh_state', gh_worker', gh_attempt)
    /\ hb_owner' = p
    /\ hb_fresh' = TRUE
    /\ ld_pc' = [ld_pc EXCEPT ![p] = "idle"]
    /\ UNCHANGED <<fsVars, loopVars, runVars, moreVars, gh_attempt, g_pc, gw_pc, gw_cur, gw_cands,
                   gw_remote, gw_att, restarts, issue_closed, lock_int, led>>

\* unlock_sweep after _is_leader returned True; its closing refresh_cache
\* asks _is_leader again and writes the heartbeat when it has gone stale.
UnlockSweepBody(p, due) ==
    /\ g_pc = "multi" /\ ld_pc[p] = "lead"
    /\ ld_actor' = p /\ ld_last' = "unlock_sweep"
    /\ gh_attempt' = [i \in WaveIssues |->
           IF i \in to_open THEN cache[i].attempt + 1 ELSE gh_attempt[i]]
    /\ gh_state' = [i \in WaveIssues |->
           IF i \in to_open THEN "open" ELSE gh_state[i]]
    /\ cache' = refresh_cache(hb_fresh, to_open # {}, due,
                              gh_state', gh_worker, gh_attempt')
    /\ hb_owner' = IF is_leader(hb_fresh) THEN p ELSE hb_owner
    /\ hb_fresh' = TRUE
    /\ led' = IF is_leader(hb_fresh) THEN led \cup {p} ELSE led
    /\ ld_pc' = [ld_pc EXCEPT ![p] = "idle"]
    /\ UNCHANGED <<fsVars, loopVars, runVars, moreVars, gh_worker, locks, stale, g_pc, gw_pc,
                   gw_cur, gw_cands, gw_remote, gw_att, restarts,
                   issue_closed, lock_int>>

\* refresh_cache called on its own (initialize_items) after _is_leader
\* returned True: the cache is rewritten when the interval has passed.
RefreshCacheBody(p, due) ==
    /\ g_pc = "multi" /\ ld_pc[p] = "lead"
    /\ ld_actor' = p /\ ld_last' = "refresh_cache"
    /\ cache' = IF due THEN Snapshot(gh_state, gh_worker, gh_attempt) ELSE cache
    /\ ld_pc' = [ld_pc EXCEPT ![p] = "idle"]
    /\ UNCHANGED <<fsVars, loopVars, runVars, moreVars, gh_state, gh_worker, gh_attempt, locks,
                   stale, hb_fresh, g_pc, gw_pc, gw_cur, gw_cands, gw_remote,
                   gw_att, restarts, issue_closed, hb_owner, lock_int, led>>

\* reconcile_closed_state after _is_leader returned True: when its interval
\* has passed, every cached item not cached as closed whose GitHub issue is
\* CLOSED gets slaps-state closed.
ReconcileBody(p, due) ==
    /\ g_pc = "multi" /\ ld_pc[p] = "lead"
   
    /\ ld_actor' = p /\ ld_last' = "reconcile_closed_state"
    /\ gh_state' = [i \in WaveIssues |->
           IF due /\ cache[i].state # "closed" /\ i \in issue_closed
           THEN "closed" ELSE gh_state[i]]
    /\ ld_pc' = [ld_pc EXCEPT ![p] = "idle"]
    /\ UNCHANGED <<fsVars, loopVars, runVars, moreVars, gh_worker, gh_attempt, cache, locks,
                   stale, hb_fresh, g_pc, gw_pc, gw_cur, gw_cands, gw_remote,
                   gw_att, restarts, issue_closed, hb_owner, lock_int, led>>


\* Time passes: the heartbeat's ts is leader_ttl_sec or more in the past; a
\* new leadership window begins with the next heartbeat written.
LeaderTermEnds ==
    /\ g_pc = "multi" /\ hb_fresh
    /\ hb_fresh' = FALSE
    /\ led' = {}
    /\ ld_actor' = 0 /\ ld_last' = "env"
    /\ UNCHANGED <<fsVars, loopVars, runVars, moreVars, gh_state, gh_worker, gh_attempt, cache,
                   locks, stale, g_pc, gw_pc, gw_cur, gw_cands, gw_remote,
                   gw_att, restarts, issue_closed, hb_owner, lock_int, ld_pc>>

\* A lock file for issue i appears: worker w's _atomic_lock_create writes
\* the JSON record; a file holding the bare worker id is the other format
\* watch_locks reads.
LeaseCreated(i, w, bare) ==
    /\ g_pc = "multi" /\ locks[i] = 0
    /\ locks' = [locks EXCEPT ![i] = w]
    /\ lock_int' = IF bare THEN lock_int \cup {i} ELSE lock_int
    /\ ld_actor' = 0 /\ ld_last' = "env"
    /\ UNCHANGED <<fsVars, loopVars, runVars, moreVars, gh_state, gh_worker, gh_attempt, cache,
                   stale, hb_fresh, g_pc, gw_pc, gw_cur, gw_cands, gw_remote,
                   gw_att, restarts, issue_closed, hb_owner, ld_pc, led>>

\* Time passes: the lock file of issue i is older than lock_ttl_sec.
LeaseAges(i) ==
    /\ g_pc = "multi" /\ locks[i] # 0 /\ i \notin stale
    /\ stale' = stale \cup {i}
    /\ ld_actor' = 0 /\ ld_last' = "env"
    /\ UNCHANGED <<fsVars, loopVars, runVars, moreVars, gh_state, gh_worker, gh_attempt, cache,
                   locks, hb_fresh, g_pc, gw_pc, gw_cur, gw_cands, gw_remote,
                   gw_att, restarts, issue_closed, hb_owner, lock_int, ld_pc, led>>

\* The holder's _remove_lock unlinks the lock file of issue i.
LeaseRemoved(i) ==
    /\ g_pc = "multi" /\ locks[i] # 0
    /\ locks' = [locks EXCEPT ![i] = 0]
    /\ stale' = stale \ {i}
    /\ lock_int' = lock_int \ {i}
    /\ ld_actor' = 0 /\ ld_last' = "env"
    /\ UNCHANGED <<fsVars, loopVars, runVars, moreVars, gh_state, gh_worker, gh_attempt, cache,
                   hb_fresh, g_pc, gw_pc, gw_cur, gw_cands, gw_remote,
                   gw_att, restarts, issue_closed, hb_owner, ld_pc, led>>

\* An issue, of the wave or a blocker outside it, is closed on GitHub.
GitHubCloses(b) ==
    /\ g_pc = "multi" /\ b \notin issue_closed
    /\ issue_closed' = issue_closed \cup {b}
    /\ ld_actor' = 0 /\ ld_last' = "env"
    /\ UNCHANGED <<fsVars, loopVars, runVars, moreVars, gh_state, gh_worker, gh_attempt, cache,
                   locks, stale, hb_fresh, g_pc, gw_pc, gw_cur, gw_cands,
                   gw_remote, gw_att, restarts, hb_owner, lock_int, ld_pc, led>>

\* Every process has run preflight, initialize_items and the first
\* unlock_sweep of main and is about to enter its watcher loop; the
\* heartbeat written during initialization has gone stale meanwhile.
InitLeaders ==
    /\ FSOff
    /\ gh_state = [i \in WaveIssues |-> "blocked"]
    /\ gh_worker = [i \in WaveIssues |-> 0]
    /\ gh_attempt = [i \in WaveIssues |-> 0]
    /\ cache = Snapshot(gh_state, gh_worker, gh_attempt)
    /\ locks = [i \in WaveIssues |-> 0]
    /\ stale = {}
    /\ hb_fresh = FALSE
    /\ g_pc = "multi"
    /\ gw_pc = [w \in Workers |-> "idle"]
    /\ gw_cur = [w \in Workers |-> 0]
    /\ gw_cands = [w \in Workers |-> <<>>]
    /\ gw_remote = [w \in Workers |-> FALSE]
    /\ gw_att = [w \in Workers |-> 0]
    /\ restarts = 0
    /\ issue_closed = {}
    /\ RunOff /\ MoreOff
    /\ hb_owner \in Procs
    /\ lock_int = {}
    /\ ld_pc = [p \in Procs |-> "idle"]
    /\ ld_last = "env"
    /\ ld_actor = 0
    /\ led = {}

LeaderPassStep ==
    \E p \in Procs :
        \/ IsLeaderRead(p)
        \/ IsLeaderWrite(p)
        \/ \E lag, due \in BOOLEAN : WatchLocksBody(p, lag, due)
        \/ \E due \in BOOLEAN : UnlockSweepBody(p, due)
        \/ \E due \in BOOLEAN : RefreshCacheBody(p, due)
        \/ \E due \in BOOLEAN : ReconcileBody(p, due)

LeaderEnvStep ==
    \/ LeaderTermEnds
    \/ \E i \in WaveIssues, w \in Workers, bare \in BOOLEAN : LeaseCreated(i, w, bare)
    \/ \E i \in WaveIssues : LeaseAges(i)
    \/ \E i \in WaveIssues : LeaseRemoved(i)
    \/ \E b \in WaveIssues \cup UNION {gh_blockers[i] : i \in WaveIssues} :
           GitHubCloses(b)

NextLeaders == LeaderPassStep \/ LeaderEnvStep

SpecLeaders == InitLeaders /\ [][NextLeaders]_vars

----------------------------------------------------------------------------
(* taskwatch/domain.py: Worker.run_once on directories given by file name *)

\* File names of the modelled directories: "2.txt", "10.txt", "100.txt",
\* "7.md" and "n.txt".
FileNames == {TaskName(2), TaskName(10), TaskName(100),
              <<55, 46, 109, 100>>, <<110, 46, 116, 120, 116>>}

\* Values of Worker.allowed_issues when a wave filter is set.
AllowSets == {{2, 10, 100}, {2, 100}}

\* Exit codes of llm.exec: success, failure, timeout (124) and missing
\* binary (127), as CodexLLM.exec returns them.
ExitCodes == {0, 1, 124, 127}

\* Path.suffix: the name from its last dot on, unless that dot comes first.
suffix(name) ==
    LET dots == {k \in 2..Len(name) : name[k] = 46}
    IN IF dots = {} THEN <<>>
       ELSE SubSeq(name, CHOOSE k \in dots : \A j \in dots : j <= k, Len(name))

RECURSIVE SortByNumber(_)
\* A listing ordered by issue number instead of by name.
SortByNumber(S) ==
    IF S = {} THEN <<>>
    ELSE LET m == CHOOSE x \in S : \A y \in S :
                      extract_issue_number(x) <= extract_issue_number(y)
         IN <<m>> \o SortByNumber(S \ {m})

\* A directory listing in issue-number order.
list_files_by_number(dir) == SortByNumber(dir)

\* fs.list_files: sorted(p for p in d.iterdir() if p.is_file()).
list_files(dir) == SortNames(dir)

\* list_sorted_txt on a directory given by its file names.
sorted_txt(dir) == SelectSeq(list_files(dir), LAMBDA f : suffix(f) = TxtSuffix)

\* The allow-set test of the claim loop: no filter, or the file has an
\* issue number and the number is allowed.
admitted(f) ==
    \/ ~r_filter
    \/ extract_issue_number(f) # 0 /\ extract_issue_number(f) \in r_allowed

\* A repair that moves no file.
no_extras(claimed_files) == <<>>

\* The corruption repair moves claimed_files[1:] to failed/.
extras_of(claimed_files) == Tail(claimed_files)

Range(seq) == {seq[k] : k \in 1..Len(seq)}

\* A routing to failed/ that is skipped when the footer append raised.
failed_move_in_try(append_ok) == append_ok

\* The routing to failed/ comes after the try block of append_text.
failed_move(append_ok) == TRUE

\* run_once up to llm.exec: corruption repair, then the claimed file is
\* resumed or the first admitted file of open/ that can be moved is
\* claimed; with nothing to claim run_once returns False.  The worker is
\* alone: a move whose source exists succeeds.
RunBegin ==
    /\ r_pc = "idle"
    /\ LET claimed_files == sorted_txt(r_slot)
           extras == IF Len(claimed_files) > 1
                     THEN Range(extras_of(claimed_files)) ELSE {}
           cands == SelectSeq(sorted_txt(r_open), admitted)
       IN /\ r_failed' = r_failed \cup extras
          /\ IF claimed_files # <<>>
             THEN /\ r_slot' = r_slot \ extras
                  /\ r_cur' = Head(claimed_files)
                  /\ r_pc' = "exec"
                  /\ r_ret' = "none"
                  /\ UNCHANGED <<r_open, r_order>>
             ELSE IF cands = <<>>
                  THEN /\ r_ret' = "false"
                       /\ UNCHANGED <<r_open, r_slot, r_cur, r_pc, r_order>>
                  ELSE /\ r_open' = r_open \ {Head(cands)}
                       /\ r_slot' = r_slot \cup {Head(cands)}
                       /\ r_cur' = Head(cands)
                       /\ r_order' = Append(r_order, Head(cands))
                       /\ r_pc' = "exec"
                       /\ r_ret' = "none"
    /\ UNCHANGED <<fsVars, loopVars, ghVars, ldVars, moreVars, r_closed, r_filter,
                   r_allowed, r_footer, r_in>>

\* run_once from the return of llm.exec: rc = 0 moves the file to closed/;
\* any other rc appends the FAILURE footer (append_ok: append_text does not
\* raise) and moves the file to failed/; mv_ok: os.replace does not raise.
\* run_once returns True.
RunRoute(rc, append_ok, mv_ok) ==
    /\ r_pc = "exec"
    /\ r_in' = [rc |-> rc, append_ok |-> append_ok, mv_ok |-> mv_ok]
    /\ r_footer' = IF rc # 0 /\ append_ok THEN r_footer \cup {r_cur} ELSE r_footer
    /\ IF rc # 0
       THEN IF failed_move(append_ok) /\ mv_ok
            THEN /\ r_slot' = r_slot \ {r_cur}
                 /\ r_failed' = r_failed \cup {r_cur}
                 /\ UNCHANGED r_closed
            ELSE UNCHANGED <<r_slot, r_failed, r_closed>>
       ELSE IF mv_ok
            THEN /\ r_slot' = r_slot \ {r_cur}
                 /\ r_closed' = r_closed \cup {r_cur}
                 /\ UNCHANGED r_failed
            ELSE UNCHANGED <<r_slot, r_failed, r_closed>>
    /\ r_cur' = <<>>
    /\ r_pc' = "idle"
    /\ r_ret' = "true"
    /\ UNCHANGED <<fsVars, loopVars, ghVars, ldVars, moreVars, r_open, r_filter,
                   r_allowed, r_order>>

\* Any split of the file names over open/, the worker's slot and neither;
\* closed/ and failed/ are empty; the wave filter is unset or one of
\* AllowSets.
InitRun ==
    /\ FSOff /\ GHOff /\ LdOff /\ MoreOff
    /\ r_open \in SUBSET FileNames
    /\ r_slot \in SUBSET (FileNames \ r_open)
    /\ r_closed = {} /\ r_failed = {}
    /\ \/ r_filter = FALSE /\ r_allowed = {}
       \/ r_filter = TRUE /\ r_allowed \in AllowSets
    /\ r_pc = "idle" /\ r_cur = <<>>
    /\ r_ret = "none"
    /\ r_order = <<>>
    /\ r_footer = {}
    /\ r_in = [rc |-> 0, append_ok |-> TRUE, mv_ok |-> TRUE]

NextRun ==
    \/ RunBegin
    \/ \E rc \in ExitCodes, append_ok, mv_ok \in BOOLEAN :
           RunRoute(rc, append_ok, mv_ok)

SpecRun == InitRun /\ [][NextRun]_vars

----------------------------------------------------------------------------
(* Properties of the filesystem backend *)

\* The directories that hold the prompt file of issue i.
Holders(i) ==
    {d \in {"open", "blocked", "closed", "failed", "dead"} :
        i \in (CASE d = "open" -> open [] d = "blocked" -> blocked
                  [] d = "closed" -> closed [] d = "failed" -> failed
                  [] OTHER -> dead)}
    \cup {w \in Workers : i \in claimed[w]}

\* C1: after any sequence of run_once, handle_closed, handle_failed and
\* startup_sweep, the prompt file of every task is in exactly one of blocked/,
\* open/, claimed/<w>/, closed/, failed/, dead/.
C1_ExactlyOneDirectory == \A i \in Issues : Cardinality(Holders(i)) = 1

\* C2: with workers running run_once concurrently, no task is held by two
\* workers, every task is executed at most once and lies in one directory:
\* of the moves out of open/ for one file exactly one succeeds.
C2_SingleClaim ==
    \A i \in Issues :
        /\ Cardinality({w \in Workers : i \in claimed[w]}) <= 1
        /\ Cardinality({w \in Workers : w_pc[w] = "exec" /\ w_cur[w] = i}) <= 1
        /\ execs[i] <= 1
        /\ Cardinality(Holders(i)) <= 1
        /\ (i \in closed \cup failed) => execs[i] = 1

\* C2 witness: worker v is about to try the move of a file that worker w has
\* already claimed and is executing, and v has a later candidate to go on to.
C2_Contended ==
    \E w, v \in Workers : \E i \in Issues :
        /\ w # v
        /\ i \in claimed[w] /\ w_pc[w] = "exec"
        /\ w_pc[v] = "scan" /\ Len(w_scan[v]) > 1
        /\ Head(w_scan[v]) = TaskName(i)

\* C6: with K the number of handle_failed calls made on a task, the task is
\* in dead/ iff K >= 3; below that dead/ does not hold it and every call sent
\* one remediation prompt; the third call moves it whether or not the
\* DEAD LETTER footer could be appended.
C6_DeadAtThree ==
    \A i \in Issues :
        /\ (i \in dead) <=> (attempts[i] >= 3)
        /\ attempts[i] < 3 => sent[i] = attempts[i]
        /\ attempts[i] >= 3 => sent[i] = 2
        /\ i \in footer => i \in dead

\* C6 witness: a third call has dead-lettered a task although the footer
\* append raised.
C6_DeadWithoutFooter ==
    \E i \in Issues :
        attempts[i] = 3 /\ sent[i] = 2 /\ i \in dead /\ i \notin footer

\* C7: a task with blockers has left blocked/ only if every one of its
\* blockedBy issues has its own marker <b>.closed.
C7_UnlockNeedsOwnMarkers ==
    \A d \in Issues :
        (raw_blockedBy[d] # {} /\ d \notin blocked) => raw_blockedBy[d] \subseteq admin_closed

----------------------------------------------------------------------------
(* Properties of the watch_tasks.py loop *)

\* Nothing is left to do: the watcher is between two ticks with no new name
\* in closed/ or failed/, open/ is empty and every worker thread is asleep.
LoopQuiescent ==
    /\ l_pc = "tick"
    /\ {TaskName(i) : i \in closed} \subseteq closed_seen
    /\ {TaskName(i) : i \in failed} \subseteq failed_seen
    /\ open = {}
    /\ \A w \in Workers : w_pc[w] = "idle"

\* C5: once the running watcher loop has caught up, every routing of a task
\* to failed/ has been counted by exactly one attempt increment, second and
\* third failures of one issue included, and a task that failed three times
\* is in dead/.
C5_EveryFailureCounted ==
    LoopQuiescent =>
        \A i \in Issues :
            /\ attempts[i] = fails[i]
            /\ fails[i] >= 3 => i \in dead

\* C8: once the running watcher loop has caught up, no dependent is left in
\* blocked/ while every one of its blockers has its closed-marker.
C8_UnblockedWhenCaughtUp ==
    LoopQuiescent =>
        \A d \in blocked :
            ~(raw_blockedBy[d] # {} /\ raw_blockedBy[d] \subseteq admin_closed)

\* C19: while open/ holds a prompt for a dependent, no unlock replaces it:
\* the copy in blocked/ stays where it is.
C19_NoClobber ==
    [][\A d \in Issues : (d \in blocked /\ d \in open) => d \in blocked']_vars

\* C20: the closed-markers only grow: no step of a worker or of the watcher
\* (handle_closed, handle_failed, startup_sweep, run_once) removes a marker,
\* and writing a marker that exists leaves admin/closed as it was.
C20_MarkersOnlyGrow ==
    /\ [][admin_closed \subseteq admin_closed']_vars
    /\ [](\A i \in admin_closed :
              write_closed_marker(admin_closed, i) = admin_closed)

\* Markers of two issues are present: the second was written while the
\* first existed.
C20_MarkersAccumulated == Cardinality(admin_closed) >= 2

\* C25: a task in blocked/ whose raw record has no blockedBy list has no
\* blockers: the unlock that follows the closing of an issue it is a
\* dependent of moves it to open/.
C25_NoBlockedByUnlocks ==
    [][\A b \in Issues : \A d \in edges[b] :
         (/\ d \in raw_missing /\ d \in blocked /\ d \notin open
          /\ b \notin admin_closed /\ b \in admin_closed') => d \notin blocked']_vars

----------------------------------------------------------------------------
(* Properties of the watcher under crashes *)

\* C21: handling the same closed file twice gives what handling it once
\* gives: the second handle_closed changes neither the markers nor blocked/
\* nor open/, whether or not the marker existed before the first call.
C21_DoubleCloseIdempotent ==
    \A i \in closed :
        LET issue == extract_issue_number(TaskName(i))
            once == handle_closed(Dirs, issue)
        IN handle_closed(once, issue) = once

\* The marker of a closed task exists already and handle_closed for it
\* still promotes a dependent.
C21_MarkerExistedAndPromotes ==
    \E i \in closed :
        /\ i \in admin_closed
        /\ handle_closed(Dirs, i).blocked # blocked

----------------------------------------------------------------------------
(* Properties of the GitHub-fields backend *)

\* Worker w is inside work_issue.
Working(w) == gw_pc[w] \in {"exec", "reopen", "release"}

\* C3: no two workers are inside work_issue for the same issue: from a
\* worker's verified claim until its _remove_lock no other worker gets a
\* verified claim on that issue.
C3_OneWorkerPerIssue ==
    \A w, v \in Workers :
        (w # v /\ Working(w) /\ Working(v)) => gw_cur[w] # gw_cur[v]

\* C4: an issue whose slaps-state is closed or dead keeps that state.
C4_TerminalStays ==
    [][\A i \in WaveIssues :
          gh_state[i] \in {"closed", "dead"} => gh_state'[i] = gh_state[i]]_vars

\* C9: under the single watcher loop with the default leader TTL, a blocked
\* issue whose blockers are all closed is eventually opened by unlock_sweep.
C9_EventuallyOpened ==
    \A i \in WaveIssues :
        (gh_state[i] = "blocked" /\ gh_blockers[i] \subseteq issue_closed)
            ~> (gh_state[i] = "open")

\* C10: an issue that has left blocked is never set back to blocked, a
\* restart of the process and a second initialize_items included.
C10_NeverBackToBlocked ==
    [][\A i \in WaveIssues :
          gh_state[i] \in {"open", "claimed", "failure", "closed", "dead"}
              => gh_state'[i] # "blocked"]_vars

\* C12: the project fields (state, worker, attempt count) change only in a
\* step of the watcher that has just taken the lead; no step of a worker
\* thread changes them.
C12_OnlyLeaderWrites ==
    [][(gh_state' # gh_state \/ gh_worker' # gh_worker
            \/ gh_attempt' # gh_attempt)
          => (is_leader(hb_fresh) /\ gw_pc' = gw_pc)]_vars

\* C14: when claim_and_verify gives up on timeout, the lock file is gone and
\* the fields do not record that worker as the claimer of the issue.
C14_TimeoutLeavesNoClaim ==
    [][\A w \in Workers :
          (gw_pc[w] = "verify" /\ gw_pc'[w] = "claim")
              => /\ locks'[gw_cur[w]] = 0
                 /\ ~(gh_worker'[gw_cur[w]] = w
                        /\ gh_state'[gw_cur[w]] = "claimed")]_vars

\* C23: no step of a worker thread changes the attempt count of an issue.
C23_WorkersLeaveAttempts ==
    [][(gw_pc' # gw_pc) => gh_attempt' = gh_attempt]_vars

\* C28: every change of an issue's slaps-state goes along an edge of the
\* state machine: blocked->open, open->claimed, claimed->closed,
\* claimed->failure, failure->open, failure->dead.
C28_OnlyStateMachineEdges ==
    [][\A i \in WaveIssues :
         (gh_state[i] # "none" /\ gh_state'[i] # gh_state[i]) =>
             <<gh_state[i], gh_state'[i]>> \in
                 {<<"blocked", "open">>, <<"open", "claimed">>,
                  <<"claimed", "closed">>, <<"claimed", "failure">>,
                  <<"failure", "open">>, <<"failure", "dead">>}]_vars

\* C24: unlock_sweep opens no issue that has a blocker of an earlier wave
\* which is not closed.
C24_EarlierWaveBlockerClosed ==
    [][\A i \in WaveIssues :
         (g_pc \in {"sweep0", "us"} /\ gh_state[i] # "open" /\ gh_state'[i] = "open") =>
             \A b \in gh_blockers[i] \cap lbl_earlier : b \in issue_closed]_vars

----------------------------------------------------------------------------
(* Properties of the wave coordinator *)

\* C26: when the watcher runs of a wave dead-lettered a task, the
\* coordinator runs no Quality Guardian for that wave, starts no next wave
\* and exits with code 1.
C26_DeadLetterAborts ==
    \A w \in Waves :
        (co_hist[w].deadlettered > 0 /\ co_hist[w].dead_count # -1) =>
            /\ co_hist[w].dead_count > 0
            /\ co_hist[w].guardians = 0
            /\ (w + 1 \in Waves => ~co_hist[w + 1].started)
            /\ co_exit = 1

\* A wave has gone through all of its steps with exit code 0 and a dead
\* count of 0, with one guardian pass.
WaveClean(w) ==
    /\ co_hist[w].wrc = 0
    /\ co_hist[w].fwrc \in {-1, 0}
    /\ co_hist[w].dead_count = 0
    /\ co_hist[w].guardians = 1
    /\ co_hist[w].grc = 0
    /\ co_hist[w].prc = 0

\* A step of the wave returned non-zero, or its dead count was positive.
WaveBroken(w) ==
    \/ co_hist[w].wrc > 0 \/ co_hist[w].fwrc > 0
    \/ co_hist[w].dead_count > 0
    \/ co_hist[w].grc > 0 \/ co_hist[w].prc > 0

C36_SecondPassOnlyWithFollowups ==
    \A w \in Waves :
        co_hist[w].fwrc # -1 => (co_hist[w].notes /\ co_hist[w].enqueued)

----------------------------------------------------------------------------
(* watch_tasks.py: SIGINT and SIGTERM *)

SgWorkers == 1..2
SgTasks == 1..2

\* Worker.run, "while not self.stop_event.is_set()": the thread leaves its
\* loop when the event is set, else goes on to list open/.
SgWorkerTest(w) ==
    /\ sg_pc \in {"starting", "running", "handler"}
    /\ sg_wpc[w] = "top"
    /\ sg_wpc' = [sg_wpc EXCEPT ![w] = IF sg_stop THEN "done" ELSE "scan"]
    /\ UNCHANGED <<notSg, sg_pc, sg_exit, sg_sig, sg_stop, sg_report, sg_cur,
                   sg_loc, sg_late>>

\* Worker.run, step 1 and the start of step 2: the first file of open/ is
\* moved to claimed/<w> and current_issue is set; without a file the thread
\* sleeps 25 s and tests the event again.
SgWorkerClaim(w) ==
    /\ sg_pc \in {"starting", "running", "handler"}
    /\ sg_wpc[w] = "scan"
    /\ LET open_files == {t \in SgTasks : sg_loc[t] = "open"}
       IN IF open_files = {}
          THEN /\ sg_wpc' = [sg_wpc EXCEPT ![w] = "top"]
               /\ UNCHANGED <<sg_cur, sg_loc, sg_late>>
          ELSE LET f == CHOOSE t \in open_files : \A u \in open_files : t <= u
               IN /\ sg_loc' = [sg_loc EXCEPT ![f] = "claimed"]
                  /\ sg_cur' = [sg_cur EXCEPT ![w] = f]
                  /\ sg_wpc' = [sg_wpc EXCEPT ![w] = "llm"]
                  /\ sg_late' = (sg_late \/ sg_stop)
    /\ UNCHANGED <<notSg, sg_pc, sg_exit, sg_sig, sg_stop, sg_report>>

\* Worker.run, step 2: invoke_codex_exec returned rc; the file goes to
\* failed/ or closed/ and current_issue is cleared.
SgWorkerRoute(w, rc) ==
    /\ sg_pc \in {"starting", "running", "handler"}
    /\ sg_wpc[w] = "llm"
    /\ sg_loc' = [sg_loc EXCEPT ![sg_cur[w]] = IF rc # 0 THEN "failed" ELSE "closed"]
    /\ sg_cur' = [sg_cur EXCEPT ![w] = 0]
    /\ sg_wpc' = [sg_wpc EXCEPT ![w] = "top"]
    /\ UNCHANGED <<notSg, sg_pc, sg_exit, sg_sig, sg_stop, sg_report, sg_late>>

\* Watcher.run after start_workers: signal.signal installs _sigint for
\* SIGINT and SIGTERM.
SgInstall ==
    /\ sg_pc = "starting"
    /\ sg_pc' = "running"
    /\ UNCHANGED <<notSg, sg_exit, sg_sig, sg_stop, sg_report, sg_wpc, sg_cur,
                   sg_loc, sg_late>>

\* A signal is delivered to the process.  With _sigint installed the main
\* thread enters it: stop_event.set(), then time.sleep(0.5).  Before that,
\* SIGINT raises KeyboardInterrupt, which main turns into 130, and SIGTERM
\* ends the process (status -15); the daemon threads end with it.
SgSignal(sig) ==
    /\ sg_pc \in {"starting", "running"}
    /\ sg_sig' = sig
    /\ IF sg_pc = "running"
       THEN /\ sg_stop' = TRUE
            /\ sg_pc' = "handler"
            /\ UNCHANGED sg_exit
       ELSE /\ sg_pc' = "exited"
            /\ sg_exit' = IF sig = "SIGINT" THEN 130 ELSE -15
            /\ UNCHANGED sg_stop
    /\ UNCHANGED <<notSg, sg_report, sg_wpc, sg_cur, sg_loc, sg_late>>

\* _sigint after its sleep: final_report_and_exit prints the report and
\* calls os._exit(0), whatever the worker threads are doing.
SgHandlerExit ==
    /\ sg_pc = "handler"
    /\ sg_report' = TRUE
    /\ sg_exit' = 0
    /\ sg_pc' = "exited"
    /\ UNCHANGED <<notSg, sg_sig, sg_stop, sg_wpc, sg_cur, sg_loc, sg_late>>

\* Watcher.maybe_finish at the end of a pass of the loop (no file of this
\* run is in blocked/): with open/ empty and every worker idle,
\* final_report_and_exit.
SgFinish ==
    /\ sg_pc = "running"
    /\ \A t \in SgTasks : sg_loc[t] # "open"
    /\ \A w \in SgWorkers : sg_cur[w] = 0
    /\ sg_report' = TRUE
    /\ sg_exit' = 0
    /\ sg_pc' = "exited"
    /\ UNCHANGED <<notSg, sg_sig, sg_stop, sg_wpc, sg_cur, sg_loc, sg_late>>

\* Watcher.run has started the worker threads; the prompt files are in
\* open/.
InitSignal ==
    /\ FSOff /\ GHOff
    /\ LdOff /\ RunOff /\ CrOff /\ WgOff /\ RmOff /\ CoOff /\ EsOff /\ DvOff /\ HfOff
    /\ WcOff
    /\ sg_pc = "starting" /\ sg_exit = 0 /\ sg_sig = "none"
    /\ sg_stop = FALSE /\ sg_report = FALSE /\ sg_late = FALSE
    /\ sg_wpc = [w \in SgWorkers |-> "top"]
    /\ sg_cur = [w \in SgWorkers |-> 0]
    /\ sg_loc = [t \in SgTasks |-> "open"]

NextSignal ==
    \/ \E w \in SgWorkers : SgWorkerTest(w)
    \/ \E w \in SgWorkers : SgWorkerClaim(w)
    \/ \E w \in SgWorkers, rc \in {0, 1} : SgWorkerRoute(w, rc)
    \/ SgInstall
    \/ \E sig \in {"SIGINT", "SIGTERM"} : SgSignal(sig)
    \/ SgHandlerExit
    \/ SgFinish

SpecSignal == InitSignal /\ [][NextSignal]_vars

----------------------------------------------------------------------------
(* taskwatch/domain.py and adapters.py: the state directories on devices *)

StateDirs == {"open", "blocked", "claimed", "closed", "failed", "dead"}
Devices == 1..2

\* LocalFS.move_atomic: os.replace between directories on different
\* devices raises OSError, which it turns into False.
replace_ok(src, dst) == dv_dev[src] = dv_dev[dst]

\* Watcher.__init__: ensure_dirs runs fs.mkdirs on every directory, then the
\* listings of closed/ and failed/ are taken.
DvEnsureDirs ==
    /\ dv_pc = "new"
    /\ dv_made' = StateDirs
    /\ dv_pc' = "ready"
    /\ UNCHANGED <<notDv, dv_dev, dv_loc, dv_marker, dv_llm>>

\* Worker.run_once with an empty slot: move_atomic of the open file into
\* claimed/<w>; the file stays where it is when the move returns False.
DvClaim ==
    /\ dv_pc = "ready"
    /\ dv_loc = "open"
    /\ dv_loc' = IF replace_ok("open", "claimed") THEN "claimed" ELSE "open"
    /\ UNCHANGED <<notDv, dv_dev, dv_pc, dv_made, dv_marker, dv_llm>>

\* Worker.run_once with a file in its slot: the LLM is run and the file is
\* moved to failed/ or closed/ by move_atomic, whose result is not read.
DvRoute(rc) ==
    /\ dv_pc = "ready"
    /\ dv_loc = "claimed"
    /\ dv_llm' = TRUE
    /\ LET dst == IF rc # 0 THEN "failed" ELSE "closed"
       IN dv_loc' = IF replace_ok("claimed", dst) THEN dst ELSE "claimed"
    /\ UNCHANGED <<notDv, dv_dev, dv_pc, dv_made, dv_marker>>

\* Watcher.handle_closed for the task's file in closed/: the marker is
\* written (nothing depends on the task).
DvHandleClosed ==
    /\ dv_pc = "ready"
    /\ dv_loc = "closed"
    /\ dv_marker' = TRUE
    /\ UNCHANGED <<notDv, dv_dev, dv_pc, dv_made, dv_loc, dv_llm>>

\* The six directories are somewhere, each on one of two devices; one task
\* file is in open/.
InitDevices ==
    /\ FSOff /\ GHOff
    /\ LdOff /\ RunOff /\ CrOff /\ WgOff /\ RmOff /\ CoOff /\ EsOff /\ SgOff /\ HfOff
    /\ WcOff
    /\ dv_dev \in [StateDirs -> Devices]
    /\ dv_pc = "new" /\ dv_made = {}
    /\ dv_loc = "open" /\ dv_marker = FALSE /\ dv_llm = FALSE

NextDevices ==
    \/ DvEnsureDirs
    \/ DvClaim
    \/ \E rc \in {0, 1} : DvRoute(rc)
    \/ DvHandleClosed

SpecDevices == InitDevices /\ [][NextDevices]_vars

----------------------------------------------------------------------------
(* taskwatch/domain.py: Watcher.handle_failed and the exceptions of its I/O *)

\* Exit codes CodexLLM.exec returns (124: timeout, 127: codex not found,
\* 1: any other exception).
LLMCodes == {0, 1, 124, 127}

\* Worker.run_once on the file in open/: claimed, run, and routed by the
\* exit code of the task LLM.
HfRunOnce(rc) ==
    /\ hf_pc = "watching"
    /\ hf_loc = "open"
    /\ hf_loc' = IF rc # 0 THEN "failed" ELSE "closed"
    /\ hf_new' = (rc # 0)
    /\ UNCHANGED <<notHf, hf_pc, hf_att, hf_footer, hf_reasons, hf_in>>

\* handle_failed(failed/<n>.txt).  append_ok and reasons_ok: whether
\* fs.append_text of the DEAD LETTER footer and of the reason-log paragraph
\* succeed or raise OSError; rc: what llm.exec(remediation) returns; wrote:
\* whether the remediation LLM wrote the new prompt to open/.  Only the
\* footer is appended inside a try block.
HfHandleFailed(append_ok, reasons_ok, rc, wrote) ==
    /\ hf_pc = "watching"
    /\ hf_loc = "failed" /\ hf_new
    /\ hf_in' = [append_ok |-> append_ok, reasons_ok |-> reasons_ok, rc |-> rc,
                 wrote |-> wrote]
    /\ hf_new' = FALSE
    /\ LET attempts_n == inc_attempt(hf_att)
       IN /\ hf_att' = attempts_n
          /\ IF attempts_n >= DeadAfter
             THEN /\ hf_footer' = append_ok
                  /\ hf_loc' = "dead"
                  /\ hf_reasons' = IF reasons_ok THEN hf_reasons + 1 ELSE hf_reasons
                  /\ hf_pc' = IF reasons_ok THEN "watching" ELSE "raised"
             ELSE /\ hf_loc' = IF wrote THEN "open" ELSE "failed"
                  /\ UNCHANGED <<hf_footer, hf_reasons, hf_pc>>
    /\ UNCHANGED notHf

\* One task is in open/ with some failures already counted.
InitFailed ==
    /\ FSOff /\ GHOff
    /\ LdOff /\ RunOff /\ CrOff /\ WgOff /\ RmOff /\ CoOff /\ EsOff /\ SgOff /\ DvOff
    /\ WcOff
    /\ hf_pc = "watching" /\ hf_att \in 0..(DeadAfter - 1)
    /\ hf_loc = "open" /\ hf_new = FALSE
    /\ hf_footer = FALSE /\ hf_reasons = 0
    /\ hf_in = [append_ok |-> TRUE, reasons_ok |-> TRUE, rc |-> 0, wrote |-> FALSE]

NextFailed ==
    \/ \E rc \in LLMCodes : HfRunOnce(rc)
    \/ \E append_ok \in BOOLEAN, reasons_ok \in BOOLEAN, rc \in LLMCodes,
          wrote \in BOOLEAN : HfHandleFailed(append_ok, reasons_ok, rc, wrote)

SpecFailed == InitFailed /\ [][NextFailed]_vars

----------------------------------------------------------------------------
(* taskwatch/waves_cache.py: WavesCache *)

\* The key "waves" of the JSON object in waves.json.
WavesKey == <<119, 97, 118, 101, 115>>

\* The waves the cache is asked about; 10 has a key of two characters.
CachedWaves == {1, 2, 10}

\* "self.read() or {}": read returns the value of "waves" in the file, a
\* dict from str(wave) to issue lists, and None when there is no file or
\* updated_at is older than the TTL.
read_or_empty(file) == IF file.exists /\ file.fresh THEN file.waves ELSE {}

\* WavesCache.get(wave): the list stored under str(wave), or None.
wc_get(file, wave) ==
    LET d == read_or_empty(file)
    IN IF has_key(d, Str(wave))
       THEN [found |-> TRUE, arr |-> value_of(d, Str(wave))]
       ELSE [found |-> FALSE, arr |-> <<>>]

\* WavesCache.put(wave, issues), then write: the entries taken over are
\* those under the key "waves" of what read returned, with int keys; the
\* wave's entry is set to the sorted issues and the file is rewritten with
\* str keys and updated_at = now.
WcPut(wave, issues) ==
    /\ wc_last.op # "off"
    /\ LET cur == read_or_empty(wc_file)
           inner == IF has_key(cur, WavesKey) THEN value_of(cur, WavesKey) ELSE {}
           waves == {<<ParseDigits(kv[1], 1, 0), kv[2]>> : kv \in inner}
           put == {kv \in waves : kv[1] # wave} \cup {<<wave, SortInts(issues)>>}
       IN wc_file' = [exists |-> TRUE, fresh |-> TRUE,
                      waves |-> {<<Str(kv[1]), kv[2]>> : kv \in put}]
    /\ wc_last' = [op |-> "put", wave |-> wave, issues |-> issues]
    /\ UNCHANGED notWc

\* GHWatcher._wave_issues: cached = self._waves_cache.get(wave); the file is
\* only read.
WcGet(wave) ==
    /\ wc_last.op # "off"
    /\ wc_last' = [op |-> "get", wave |-> wave,
                   issues |-> IF wc_get(wc_file, wave).found
                              THEN {wc_get(wc_file, wave).arr} ELSE {}]
    /\ UNCHANGED wc_file
    /\ UNCHANGED notWc

\* Time passes: updated_at is more than ttl_sec = 600 s in the past.
WcExpires ==
    /\ wc_last.op # "off"
    /\ wc_file.exists /\ wc_file.fresh
    /\ wc_file' = [wc_file EXCEPT !.fresh = FALSE]
    /\ wc_last' = [op |-> "expire", wave |-> 0, issues |-> {}]
    /\ UNCHANGED notWc

\* GHWatcher.__init__: WavesCache(Path('.slaps/cache/waves.json')), no file
\* yet.
InitWaves ==
    /\ FSOff /\ GHOff
    /\ LdOff /\ RunOff /\ CrOff /\ WgOff /\ RmOff /\ CoOff /\ EsOff /\ SgOff /\ DvOff
    /\ HfOff
    /\ wc_file = NoWavesFile
    /\ wc_last = [op |-> "init", wave |-> 0, issues |-> {}]

NextWaves ==
    \/ \E wave \in CachedWaves, issues \in SUBSET Issues : WcPut(wave, issues)
    \/ \E wave \in CachedWaves : WcGet(wave)
    \/ WcExpires

SpecWaves == InitWaves /\ [][NextWaves]_vars

----------------------------------------------------------------------------
(* Properties of the estimate *)

\* C29: at each claim the stored estimate is used only when it was stored
\* for the current attempt (failures + 1); otherwise the estimator is run,
\* {attempt, estimate_sec, timeout_sec} is stored for the current attempt
\* and the task LLM gets the timeout 2 x estimate_sec kept within 600 and
\* 7200 seconds, with 20 minutes when no positive number is obtained.  A
\* stored attempt 1, one failure and the answer "7" give attempt 2, 420 s
\* and 840 s.
C29_EstimatePerAttempt ==
    [][(es_pc = "claim" /\ es_pc' = "exec") =>
         LET cur == es_fail + 1
             doubled == 2 * es_cache'.estimate_sec
             clamped == IF doubled < 600 THEN 600
                        ELSE IF doubled > 7200 THEN 7200 ELSE doubled
         IN /\ ~es_in'.ran => (es_cache.attempt = cur /\ es_cache' = es_cache)
            /\ es_cache.attempt # cur => es_in'.ran
            /\ es_in'.ran =>
                 /\ es_cache'.attempt = cur
                 /\ es_cache'.timeout_sec = clamped
                 /\ (es_in'.rc # 0 \/ es_in'.out \in {<<>>, <<48>>}) =>
                        es_cache'.estimate_sec = 20 * 60
                 /\ (es_in'.rc = 0 /\ es_in'.out = <<51>>) =>
                        es_cache'.estimate_sec = 180 /\ es_llm' = 600
                 /\ (es_in'.rc = 0 /\ es_in'.out = <<55, 48>>) =>
                        es_cache'.estimate_sec = 4200 /\ es_llm' = 7200
                 /\ (es_in'.rc = 0 /\ es_in'.out = <<55>> /\ es_cache.attempt = 1
                     /\ es_fail = 1) =>
                        es_cache' = [attempt |-> 2, estimate_sec |-> 420,
                                     timeout_sec |-> 840]
            /\ es_llm' = es_cache'.timeout_sec
            /\ es_llm' >= 600 /\ es_llm' <= 7200]_vars

\* The second attempt runs with the estimate of 7 minutes made for it,
\* after a first attempt that had its own.
C29_ReestimatedSecondAttempt ==
    /\ es_pc = "exec" /\ es_fail = 1
    /\ es_in.ran /\ es_in.out = <<55>>
    /\ es_cache = [attempt |-> 2, estimate_sec |-> 420, timeout_sec |-> 840]
    /\ es_llm = 840

----------------------------------------------------------------------------
(* Properties of the shutdown on a signal *)

\* C30: when the process has exited after SIGINT or SIGTERM reached the
\* installed handler, no worker claimed a file after the stop was requested,
\* no file is left in claimed/ (the LLM run in flight finished and its task
\* was routed), the final report was printed and the exit code is 130.
C30_OrderlyShutdown ==
    (sg_pc = "exited" /\ sg_stop) =>
        /\ ~sg_late
        /\ \A t \in SgTasks : sg_loc[t] # "claimed"
        /\ sg_report
        /\ sg_exit = 130

----------------------------------------------------------------------------
(* Properties of wave scoping *)

\* The issues of the wave that coordinate_waves.run_watcher names on the
\* command line of watch_tasks.py ("--wave", str(wave)); issue 10 belongs
\* to another wave.
run_watcher_wave == {1, 3}

\* C31: a task whose issue is outside the allow-set of the wave the watcher
\* was started for is never moved from open/ to a claimed slot and never
\* moved from blocked/ to open/.
C31_OnlyWaveIssuesScheduled ==
    [][\A i \in Issues \ run_watcher_wave :
          /\ (i \in open /\ i \notin open') => \A w \in Workers : i \notin claimed'[w]
          /\ (i \in blocked /\ i \notin blocked') => i \notin open']_vars

----------------------------------------------------------------------------
(* Properties of the store on several devices *)

\* C32: when the six state directories are not all on one device the store
\* does not start: no directory is prepared, no worker claims the task or
\* runs it, and no watcher handler runs.
C32_RefusesCrossDevice ==
    (\E d, e \in StateDirs : dv_dev[d] # dv_dev[e]) =>
        /\ dv_pc = "new" /\ dv_made = {}
        /\ dv_loc = "open" /\ dv_llm = FALSE /\ dv_marker = FALSE

----------------------------------------------------------------------------
(* Properties of unlock_sweep *)

C34_NoOpenAtThreeAttempts ==
    /\ [][\A i \in WaveIssues :
             (gh_attempt[i] >= 3 /\ gh_state'[i] = "open") => gh_state[i] = "open"]_vars
    /\ [](\A i \in WaveIssues : gh_attempt[i] <= 3)

\* C35: a watch_locks or unlock_sweep pass that changed a project field
\* (reflected a claim, opened an issue) leaves the items cache equal to the
\* server state at its return.
C35_CacheFreshAfterMutation ==
    [][(/\ g_pc \in {"sweep0", "us", "wl"}
        /\ g_pc' \in {"wl", "us", "sleep"}
        /\ g_pc' # g_pc
        /\ <<gh_state, gh_worker, gh_attempt>>' # <<gh_state, gh_worker, gh_attempt>>)
       => cache' = Snapshot(gh_state', gh_worker', gh_attempt')]_vars

\* C37: a leader's unlock_sweep pass sets slaps-state closed on every item
\* whose GitHub issue is CLOSED while its slaps-state is not closed.
C37_SweepReconcilesClosed ==
    [][(ld_last' = "unlock_sweep" /\ ld_pc' # ld_pc) =>
          \A i \in WaveIssues :
              (i \in issue_closed /\ gh_state[i] # "closed") =>
                  gh_state'[i] = "closed"]_vars

\* C38: no exception leaves handle_failed, whatever the remediation LLM
\* returns and whether or not the DEAD LETTER footer and the reason-log
\* paragraph can be appended.
C38_HandleFailedReturns == hf_pc # "raised"

----------------------------------------------------------------------------
(* Properties of the end of a watch_tasks.py run *)

\* C39: when maybe_finish has ended the process, no worker slot holds a
\* task, every file in failed/ has been taken up by the loop, and every
\* task in closed/ has its marker in admin/closed.
C39_NothingLeftAtExit ==
    l_pc = "exited" =>
        /\ \A w \in Workers : claimed[w] = {}
        /\ \A i \in failed : TaskName(i) \in failed_seen
        /\ closed \subseteq admin_closed

----------------------------------------------------------------------------
(* Properties of the waves cache *)

\* C40: a put for wave w on a file within its TTL leaves the entry of every
\* other cached wave as it was: get(v) returns the same list after as before.
C40_PutKeepsOtherWaves ==
    [][(wc_last'.op = "put" /\ wc_file.exists /\ wc_file.fresh) =>
          \A v \in CachedWaves \ {wc_last'.wave} :
              wc_get(wc_file, v).found => wc_get(wc_file', v) = wc_get(wc_file, v)]_vars

----------------------------------------------------------------------------
(* Properties of leader election *)

\* C11: among the watcher processes sharing one heartbeat record, at most
\* one gets True from _is_leader within one heartbeat TTL window.
C11_OneLeaderPerWindow == Cardinality(led) <= 1

\* C13: a pass that process p begins while the heartbeat is younger than the
\* TTL and was written by another process ends in that step: p does not go
\* on to lead, and no project field, lock file or cache entry changes.
C13_FreshHeartbeatStandsDown ==
    [][\A p \in Procs :
          (ld_actor' = p /\ ld_pc[p] = "idle" /\ hb_fresh /\ hb_owner # p)
              => /\ ld_pc'[p] = "idle"
                 /\ UNCHANGED <<gh_state, gh_worker, gh_attempt, cache,
                                locks, stale, lock_int, hb_owner>>]_vars

\* Some process has just stood down before another process's heartbeat.
C13_StoodDown ==
    /\ ld_last = "stood"
    /\ ld_actor \in Procs
    /\ hb_fresh /\ hb_owner # ld_actor

\* C15: a leader's watch_locks pass removes every lock file older than the
\* lock TTL and does not reflect it as a claim, whichever of the two lock
\* payload formats the file has.
C15_StaleLocksReaped ==
    [][ld_last' = "watch_locks" =>
          \A i \in WaveIssues :
              (locks[i] # 0 /\ i \in stale)
                  => /\ locks'[i] = 0
                     /\ gh_worker'[i] = gh_worker[i]
                     /\ gh_state'[i] = gh_state[i]]_vars

----------------------------------------------------------------------------
(* Properties of run_once *)

\* The ".txt" files of a directory.
TxtFiles(dir) == {f \in dir : suffix(f) = TxtSuffix}

C17_LexicographicClaim ==
    /\ [][r_order' # r_order =>
            LET f == r_order'[Len(r_order')]
            IN /\ f \in TxtFiles(r_open) /\ admitted(f)
               /\ \A g \in TxtFiles(r_open) \ {f} : admitted(g) => LexLess(f, g)]_vars
    /\ [][\A f \in r_open \ TxtFiles(r_open) : f \in r_open']_vars
    /\ [](Range(r_order) = {TaskName(2), TaskName(10), TaskName(100)}
             => r_order = <<TaskName(10), TaskName(100), TaskName(2)>>)

\* All three numbered tasks were claimed from open/ past an unclaimed file
\* without the suffix.
C17_ThreeClaimed ==
    /\ Range(r_order) = {TaskName(2), TaskName(10), TaskName(100)}
    /\ r_open \ TxtFiles(r_open) # {}

\* C18: the step that ends run_once after llm.exec returns True; if the
\* move succeeds the file leaves the slot for closed/ on exit code 0 and
\* for failed/ on any other code, whether or not the footer append raised;
\* if the move fails the file stays in the slot.
C18_RouteByExitCode ==
    [][(r_pc = "exec" /\ r_pc' = "idle") =>
          /\ r_ret' = "true"
          /\ IF r_in'.mv_ok
             THEN /\ r_cur \notin r_slot'
                  /\ IF r_in'.rc = 0
                     THEN r_closed' = r_closed \cup {r_cur} /\ r_failed' = r_failed
                     ELSE r_failed' = r_failed \cup {r_cur} /\ r_closed' = r_closed
             ELSE /\ r_cur \in r_slot'
                  /\ r_closed' = r_closed /\ r_failed' = r_failed]_vars

\* A task whose LLM binary was missing or timed out has been moved to
\* failed/ although the footer append raised.
C18_FailedWithoutFooter ==
    /\ r_pc = "idle" /\ r_ret = "true"
    /\ r_in.rc \in {124, 127} /\ ~r_in.append_ok /\ r_in.mv_ok
    /\ r_failed \ r_footer # {}

====
